---- MODULE Spec2Model ----
(***************************************************************************)
(* The interactive-fiction runtime of insight68/Skills:                    *)
(*   text-adventure-engine/scripts/engine.py   TextAdventureEngine         *)
(*   goose-adventure-game/scripts/game_engine.py   GameEngine              *)
(*   goose-adventure-game/scripts/save_manager.py  SaveManager             *)
(* A behaviour is one session of one of the classes: the value of prog     *)
(* says which object was constructed.  Python dicts are functions with     *)
(* a finite domain of strings, Python lists are sequences, an absent       *)
(* optional field (None) is a key missing from the domain.                 *)
(***************************************************************************)
EXTENDS Integers, Sequences, FiniteSets, TLC

VARIABLES
    prog,   \* the object this session constructed: "text" a
            \* TextAdventureEngine on TextScript, "lab" one on LabScript,
            \* "goose" a GameEngine, "savemgr" a SaveManager, "auto" an
            \* AutoSaveManager, "pair" two TextAdventureEngine objects
            \* built from one TextScript dict
    state,  \* engine.state, the GameState dataclass instance
    hooks,  \* TextAdventureEngine.hooks: event name -> list of callbacks
    files,  \* the save directory: file stem -> parsed JSON document
    clock,  \* datetime.now(), counted in saves written so far
    last    \* the last call made on the object: operation, argument, outcome

vars == <<prog, state, hooks, files, clock, last>>

\* Bound of the model: state-changing calls (hook registrations, successful
\* choices, saves) one session makes.
MaxCalls == 3

-----------------------------------------------------------------------------
(* Python dict and list primitives                                         *)

Has(d, k) == k \in DOMAIN d

Get(d, k, default) == IF k \in DOMAIN d THEN d[k] ELSE default

Put(d, k, v) == [x \in (DOMAIN d) \cup {k} |-> IF x = k THEN v ELSE d[x]]

Del(d, k) == [x \in (DOMAIN d) \ {k} |-> d[x]]

InList(x, l) == \E i \in 1..Len(l) : l[i] = x

\* list.remove(x): drops the first occurrence
RemoveFirst(l, x) ==
    LET i == CHOOSE j \in 1..Len(l) : l[j] = x /\ \A k \in 1..(j - 1) : l[k] # x
    IN  [j \in 1..(Len(l) - 1) |-> IF j < i THEN l[j] ELSE l[j + 1]]

Max(a, b) == IF a >= b THEN a ELSE b

Min(a, b) == IF a <= b THEN a ELSE b

\* a mutant of Clamp: the upper bound only
ClampNoFloor(v) == Min(100, v)

\* max(0, min(100, v))
Clamp(v) == Max(0, Min(100, v))

\* max(0, v)
Floor0(v) == Max(0, v)

-----------------------------------------------------------------------------
(* The scripts.  TextScript is a script in the vocabulary of engine.py,    *)
(* GooseScript one in the vocabulary of game_engine.py.                    *)

TextScript ==
    [game_info |-> [title |-> "Demo", version |-> "2.0"],
     config |-> [knowledge_milestones |->
                    << <<"100", "Scholar">>, <<"200", "Sage">> >>],
     scenes |-> <<
        [id |-> "start", title |-> "Start", description |-> "A crossroads",
         choices |-> <<
            [text |-> "fight", next_scene |-> "forest",
             effects |-> [hp_change |-> -20], morality_change |-> 10],
            [text |-> "study", next_scene |-> "start",
             knowledge_gain |-> 100],
            [text |-> "forget", next_scene |-> "start",
             knowledge_gain |-> -60],
            [text |-> "take", next_scene |-> "start",
             effects |-> [add_item |-> "key",
                          add_items |-> <<"rope", "rope", "key">>,
                          set_flag |-> [met |-> TRUE],
                          stat_change |-> [luck |-> 1],
                          add_achievement |-> "Collector",
                          gold_change |-> -50,
                          teleport |-> "moon"],
             gold_change |-> 5],
            [text |-> "open", next_scene |-> "vault",
             requirements |-> [has_item |-> "key",
                               has_all_items |-> <<"key", "rope">>,
                               has_any_item |-> <<"torch", "rope">>,
                               flag |-> <<"met", TRUE>>,
                               flag_set |-> "met",
                               stat_min |-> <<"luck", 1>>,
                               has_achievement |-> "Collector",
                               gold_max |-> 5,
                               weather |-> "rain"]]
         >>],
        [id |-> "forest", title |-> "Forest", description |-> "Dark trees",
         on_enter |-> [size_change |-> -30, gold_change |-> 10, fog |-> TRUE],
         image_prompt |-> "a forest", music |-> "tense",
         choices |-> <<
            [text |-> "rest", next_scene |-> "forest",
             effects |-> [hp_change |-> 250, morality_change |-> 60,
                          size_change |-> -150, knowledge_gain |-> 100],
             morality_change |-> -20, hp_change |-> -5],
            [text |-> "rob", next_scene |-> "start",
             requirements |-> [flag_not_set |-> "met"],
             effects |-> [morality_change |-> -70, gold_change |-> -50,
                          remove_item |-> "key", clear_flag |-> "met",
                          game_over |-> TRUE],
             hp_change |-> -150, gold_change |-> -1],
            [text |-> "climb", next_scene |-> "summit",
             requirements |-> [morality_min |-> 60, hp_max |-> 90,
                               size_min |-> 50]],
            [text |-> "sneak", next_scene |-> "nowhere",
             requirements |-> [has_item |-> "torch",
                               visited_scene |-> "forest"]],
            [text |-> "flee", next_scene |-> "void"]
         >>],
        [id |-> "vault", title |-> "Vault", description |-> "A locked room",
         choices |-> <<
            [text |-> "loot", next_scene |-> "start", gold_change |-> 1000],
            [text |-> "recall", next_scene |-> "start",
             requirements |-> [visited_scene |-> "start"]]
         >>],
        [id |-> "summit", title |-> "Summit", description |-> "The top",
         on_enter |-> [victory |-> TRUE, add_achievement |-> "Hero"],
         choices |-> << >>],
        [id |-> "victory", title |-> "Victory", description |-> "You won",
         on_enter |-> [add_achievement |-> "Champion", gold_change |-> 100],
         choices |-> <<
            [text |-> "again", next_scene |-> "start",
             requirements |-> [visited_scene |-> "vault"]]
         >>]
     >>,
     endings |-> <<
        [title |-> "Collector", description |-> "You kept the key",
         requirements |-> [has_item |-> "key", flag_set |-> "met"]],
        [title |-> "Sage", description |-> "You know it all",
         requirements |-> [knowledge_min |-> 200]],
        [title |-> "Haunted", description |-> "The road follows you",
         requirements |-> [size_min |-> 80, visited_scene |-> "start"],
         tier |-> "good"],
        [title |-> "Plain", description |-> "An ordinary life",
         requirements |-> << >>, tier |-> "neutral"],
        [title |-> "Saint", description |-> "A shining example", tier |-> "perfect"],
        [title |-> "Friend", description |-> "Well liked", tier |-> "good"],
        [title |-> "Helper", description |-> "Useful", tier |-> "good"]
     >>]

\* A JSON string in a place where the code expects an object: the engine
\* does not look at the type, so the value gets as far as the attribute
\* access.  (No flag or stat of the scripts is named "pystr".)
JsonString(x) == [pystr |-> x]

IsMapping(v) == ~("pystr" \in DOMAIN v)

\* LabScript is a script with ill-formed parts: effect sets whose set_flag
\* or stat_change is a string, and requirement sets whose flag or stat_min
\* is the string "met" or "luck" instead of a [name, value] pair.  Where a
\* pair is unpacked a Python string is the sequence of its characters.
LabScript ==
    [game_info |-> [title |-> "Lab", version |-> "0.1"],
     scenes |-> <<
        [id |-> "start", title |-> "Lab", description |-> "A test bench",
         choices |-> <<
            [text |-> "curse", next_scene |-> "start",
             effects |-> [add_item |-> "gem", hp_change |-> -10,
                          set_flag |-> JsonString("oops"),
                          add_achievement |-> "Cursed"],
             morality_change |-> 5],
            [text |-> "hex", next_scene |-> "gate",
             effects |-> [gold_change |-> 7,
                          stat_change |-> JsonString("luck"),
                          set_flag |-> [hexed |-> TRUE]]],
            [text |-> "go", next_scene |-> "gate"]
         >>],
        [id |-> "gate", title |-> "Gate", description |-> "A locked gate",
         choices |-> <<
            [text |-> "peek", next_scene |-> "start",
             requirements |-> [has_item |-> "gem", flag |-> <<"m", "e", "t">>]],
            [text |-> "pry", next_scene |-> "start",
             requirements |-> [stat_min |-> <<"l", "u", "c", "k">>]]
         >>]
     >>]

\* self.script of the engine this session constructed
Script == IF prog = "lab" THEN LabScript ELSE TextScript

-----------------------------------------------------------------------------
(* engine.py: GameState                                                    *)

TextFields ==
    {"current_scene", "hp", "morality", "size", "knowledge", "gold",
     "inventory", "achievements", "flags", "history", "stats"}

\* GameState(): the dataclass defaults
TextDefaults ==
    [current_scene |-> "start", hp |-> 100, morality |-> 50, size |-> 100,
     knowledge |-> 0, gold |-> 0, inventory |-> << >>, achievements |-> << >>,
     flags |-> << >>, history |-> << >>, stats |-> << >>]

\* The fields a Choice keeps of its choice_data
TextChoiceFields ==
    {"text", "next_scene", "requirements", "effects", "morality_change",
     "knowledge_gain", "gold_change", "hp_change"}

TextSceneFields ==
    {"id", "title", "description", "choices", "image_prompt", "music",
     "narrator", "on_enter"}

\* Choice(text=choice_data["text"], ..., x=choice_data.get("x")): the keys
\* outside the dataclass are dropped, an absent key stays absent (None)
LoadChoice(cd, fields) == [k \in (DOMAIN cd) \cap fields |-> cd[k]]

LoadScene(sd, sceneFields, choiceFields) ==
    [k \in (DOMAIN sd) \cap sceneFields |->
        IF k = "choices"
        THEN [i \in 1..Len(sd.choices) |-> LoadChoice(sd.choices[i], choiceFields)]
        ELSE sd[k]]

\* _load_scenes: self.scenes[scene_data["id"]] = Scene(...); a later scene
\* with the same id replaces an earlier one
LoadScenes(script, sceneFields, choiceFields) ==
    LET sc  == script.scenes
        ids == {sc[i].id : i \in 1..Len(sc)}
    IN  [id \in ids |->
            LET i == CHOOSE j \in 1..Len(sc) :
                        sc[j].id = id /\ \A k \in (j + 1)..Len(sc) : sc[k].id # id
            IN  LoadScene(sc[i], sceneFields, choiceFields)]

DemoScenes == LoadScenes(TextScript, TextSceneFields, TextChoiceFields)

LabScenes == LoadScenes(LabScript, TextSceneFields, TextChoiceFields)

\* self.scenes of the engine this session constructed
TextScenes == IF prog = "lab" THEN LabScenes ELSE DemoScenes

\* _load_config: self.config = self.script.get("config", {})
TextConfig == Get(Script, "config", << >>)

TextGameInfo == Get(Script, "game_info", << >>)

\* The classes of engine.py
TextProgs == {"text", "lab"}

\* The event vocabulary of self.hooks
HookEvents == {"on_scene_enter", "on_scene_exit", "on_choice", "on_save", "on_load"}

\* An optional dict field: None (absent) reads as the empty dict
Opt(c, k) == IF k \in DOMAIN c THEN c[k] ELSE << >>

-----------------------------------------------------------------------------
(* engine.py: TextAdventureEngine._check_requirements                      *)
(* The outcome is "True", "False", or the name of the exception raised.    *)

ItemChecksFail(s, r) ==
    \/ Has(r, "has_item") /\ ~InList(r.has_item, s.inventory)
    \/ Has(r, "has_any_item")
        /\ ~\E i \in 1..Len(r.has_any_item) : InList(r.has_any_item[i], s.inventory)
    \/ Has(r, "has_all_items")
        /\ ~\A i \in 1..Len(r.has_all_items) : InList(r.has_all_items[i], s.inventory)

\* self.state.flags.get(flag_name) != flag_value
FlagChecksFail(s, r) ==
    \/ Has(r, "flag") /\ ~(Has(s.flags, r.flag[1]) /\ s.flags[r.flag[1]] = r.flag[2])
    \/ Has(r, "flag_set") /\ ~Has(s.flags, r.flag_set)
    \/ Has(r, "flag_not_set") /\ Has(s.flags, r.flag_not_set)

RangeStats == {"morality", "size", "hp", "knowledge", "gold"}

StatChecksFail(s, r) ==
    \E stat \in RangeStats :
        \/ Has(r, stat \o "_min") /\ s[stat] < r[stat \o "_min"]
        \/ Has(r, stat \o "_max") /\ s[stat] > r[stat \o "_max"]

CustomStatCheckFails(s, r) ==
    Has(r, "stat_min") /\ Get(s.stats, r.stat_min[1], 0) < r.stat_min[2]

AchievementCheckFails(s, r) ==
    Has(r, "has_achievement") /\ ~InList(r.has_achievement, s.achievements)

\* "visited_scene": any(req in h for h in self.state.history) names req,
\* which is bound nowhere: the generator raises NameError on its first
\* element, and any() of an empty history is False without evaluating it
\* The requirement keys _check_requirements looks at
RequirementKeys ==
    {"has_item", "has_any_item", "has_all_items", "flag", "flag_set",
     "flag_not_set", "stat_min", "has_achievement", "visited_scene"}
        \cup {stat \o "_min" : stat \in RangeStats}
        \cup {stat \o "_max" : stat \in RangeStats}

\* a mutant of CheckRequirements: a key outside the vocabulary is an unmet
\* requirement
CheckRequirementsStrict(s, r) ==
    IF DOMAIN r = {} THEN "True"
    ELSE IF ~(DOMAIN r \subseteq RequirementKeys) THEN "False"
    ELSE IF ItemChecksFail(s, r) THEN "False"
    ELSE IF Has(r, "flag") /\ Len(r.flag) # 2 THEN "ValueError"
    ELSE IF FlagChecksFail(s, r) \/ StatChecksFail(s, r) THEN "False"
    ELSE IF Has(r, "stat_min") /\ Len(r.stat_min) # 2 THEN "ValueError"
    ELSE IF CustomStatCheckFails(s, r) \/ AchievementCheckFails(s, r) THEN "False"
    ELSE IF Has(r, "visited_scene")
         THEN (IF s.history = << >> THEN "False" ELSE "NameError")
    ELSE "True"

\* flag_name, flag_value = requirements["flag"] (and the same for stat_min)
\* raises ValueError unless the value has exactly two elements
CheckRequirements(s, r) ==
    IF DOMAIN r = {} THEN "True"
    ELSE IF ItemChecksFail(s, r) THEN "False"
    ELSE IF Has(r, "flag") /\ Len(r.flag) # 2 THEN "ValueError"
    ELSE IF FlagChecksFail(s, r) \/ StatChecksFail(s, r) THEN "False"
    ELSE IF Has(r, "stat_min") /\ Len(r.stat_min) # 2 THEN "ValueError"
    ELSE IF CustomStatCheckFails(s, r) \/ AchievementCheckFails(s, r) THEN "False"
    ELSE IF Has(r, "visited_scene")
         THEN (IF s.history = << >> THEN "False" ELSE "NameError")
    ELSE "True"

\* the outcome of the check of each choice of a scene, in order
RequirementChecks(s, cs) ==
    [i \in 1..Len(cs) |-> CheckRequirements(s, Opt(cs[i], "requirements"))]

\* the elements of cs whose check is "True", in order
RECURSIVE Passing(_, _)
Passing(cs, checks) ==
    IF cs = << >> THEN << >>
    ELSE (IF Head(checks) = "True" THEN <<Head(cs)>> ELSE << >>)
         \o Passing(Tail(cs), Tail(checks))

\* the loop of get_available_choices: exc names the exception a check
\* raises (no list is returned then)
FilterChoices(cs, checks) ==
    IF \E i \in 1..Len(checks) : checks[i] \notin {"True", "False"}
    THEN [exc |-> checks[CHOOSE i \in 1..Len(checks) :
                            /\ checks[i] \notin {"True", "False"}
                            /\ \A j \in 1..(i - 1) : checks[j] \in {"True", "False"}],
          val |-> << >>]
    ELSE [exc |-> "None", val |-> Passing(cs, checks)]

\* get_current_scene / get_available_choices
GetAvailableChoices(s) ==
    IF s.current_scene \notin DOMAIN TextScenes
    THEN [exc |-> "None", val |-> << >>]
    ELSE FilterChoices(TextScenes[s.current_scene].choices,
                       RequirementChecks(s, TextScenes[s.current_scene].choices))

-----------------------------------------------------------------------------
(* engine.py: _check_knowledge_achievements and _apply_effects             *)

\* int(threshold) on the keys of config.knowledge_milestones
ParseInt(t) ==
    CASE t = "100" -> 100
      [] t = "200" -> 200

\* append x unless present
AddUnique(l, x) == IF InList(x, l) THEN l ELSE Append(l, x)

RECURSIVE AddAll(_, _)
\* for item in items: if item not in inventory: inventory.append(item)
AddAll(l, items) ==
    IF items = << >> THEN l
    ELSE AddAll(IF InList(Head(items), l) THEN l ELSE Append(l, Head(items)), Tail(items))

RECURSIVE GrantMilestonesAgain(_, _, _)
\* a mutant of GrantMilestones: no membership test
GrantMilestonesAgain(ach, knowledge, ms) ==
    IF ms = << >> THEN ach
    ELSE GrantMilestonesAgain(
            IF knowledge >= ParseInt(Head(ms)[1])
            THEN Append(ach, Head(ms)[2]) ELSE ach,
            knowledge, Tail(ms))

RECURSIVE GrantMilestones(_, _, _)
\* for threshold, achievement in milestones.items(): ...
GrantMilestones(ach, knowledge, ms) ==
    IF ms = << >> THEN ach
    ELSE GrantMilestones(
            IF knowledge >= ParseInt(Head(ms)[1]) /\ ~InList(Head(ms)[2], ach)
            THEN Append(ach, Head(ms)[2]) ELSE ach,
            knowledge, Tail(ms))

CheckKnowledgeAchievements(s) ==
    [s EXCEPT !.achievements =
        GrantMilestones(@, s.knowledge, Get(TextConfig, "knowledge_milestones", << >>))]

\* a mutant of GainKnowledge: the milestones are not looked at
GainKnowledgeUnchecked(s, gain) == [s EXCEPT !.knowledge = @ + gain]

\* self.state.knowledge += gain; self._check_knowledge_achievements()
GainKnowledge(s, gain) ==
    CheckKnowledgeAchievements([s EXCEPT !.knowledge = @ + gain])

\* for stat, value in effects["stat_change"].items(): stats[stat] = stats.get(stat, 0) + value
StatChange(stats, ch) ==
    [k \in (DOMAIN stats) \cup (DOMAIN ch) |-> Get(stats, k, 0) + Get(ch, k, 0)]

\* for flag, value in effects["set_flag"].items(): flags[flag] = value
SetFlags(flags, fs) ==
    [k \in (DOMAIN flags) \cup (DOMAIN fs) |-> IF k \in DOMAIN fs THEN fs[k] ELSE flags[k]]

AddItem(s, e) ==
    IF Has(e, "add_item")
    THEN [s EXCEPT !.inventory = AddUnique(@, e.add_item)] ELSE s

AddItems(s, e) ==
    IF Has(e, "add_items")
    THEN [s EXCEPT !.inventory = AddAll(@, e.add_items)] ELSE s

RemoveItem(s, e) ==
    IF Has(e, "remove_item") /\ InList(e.remove_item, s.inventory)
    THEN [s EXCEPT !.inventory = RemoveFirst(@, e.remove_item)] ELSE s

HpChange(s, e) ==
    IF Has(e, "hp_change") THEN [s EXCEPT !.hp = Clamp(@ + e.hp_change)] ELSE s

MoralityChange(s, e) ==
    IF Has(e, "morality_change")
    THEN [s EXCEPT !.morality = Clamp(@ + e.morality_change)] ELSE s

SizeChange(s, e) ==
    IF Has(e, "size_change") THEN [s EXCEPT !.size = Clamp(@ + e.size_change)] ELSE s

GoldChange(s, e) ==
    IF Has(e, "gold_change") THEN [s EXCEPT !.gold = Floor0(@ + e.gold_change)] ELSE s

KnowledgeGain(s, e) ==
    IF Has(e, "knowledge_gain") THEN GainKnowledge(s, e.knowledge_gain) ELSE s

CustomStatChange(s, e) ==
    IF Has(e, "stat_change")
    THEN [s EXCEPT !.stats = StatChange(@, e.stat_change)] ELSE s

SetFlag(s, e) ==
    IF Has(e, "set_flag") THEN [s EXCEPT !.flags = SetFlags(@, e.set_flag)] ELSE s

ClearFlag(s, e) ==
    IF Has(e, "clear_flag") /\ Has(s.flags, e.clear_flag)
    THEN [s EXCEPT !.flags = Del(@, e.clear_flag)] ELSE s

AddAchievement(s, e) ==
    IF Has(e, "add_achievement")
    THEN [s EXCEPT !.achievements = AddUnique(@, e.add_achievement)] ELSE s

GameOver(s, e) ==
    IF Has(e, "game_over") THEN [s EXCEPT !.current_scene = "game_over"] ELSE s

Victory(s, e) ==
    IF Has(e, "victory") THEN [s EXCEPT !.current_scene = "victory"] ELSE s

\* the keys of _apply_effects, in the order of the code
EffectKeys ==
    <<"add_item", "add_items", "remove_item", "hp_change", "morality_change",
      "size_change", "gold_change", "knowledge_gain", "stat_change", "set_flag",
      "clear_flag", "add_achievement", "game_over", "victory">>

\* effects[k].items() on a value that is no dict
Raises(e, k) == k \in {"stat_change", "set_flag"} /\ Has(e, k) /\ ~IsMapping(e[k])

\* the exception _apply_effects raises on e
EffectError(e) ==
    IF Raises(e, "stat_change") \/ Raises(e, "set_flag")
    THEN "AttributeError" ELSE "None"

\* the keys of e that come before the first one that raises
Applied(e) ==
    [k \in {EffectKeys[i] : i \in {j \in 1..Len(EffectKeys) :
                                      \A h \in 1..j : ~Raises(e, EffectKeys[h])}}
            \cap DOMAIN e |-> e[k]]

ApplyKeys(s, e) ==
    Victory(GameOver(AddAchievement(ClearFlag(SetFlag(CustomStatChange(
    KnowledgeGain(GoldChange(SizeChange(MoralityChange(HpChange(
    RemoveItem(AddItems(AddItem(s, e), e), e), e), e), e), e), e), e), e), e),
    e), e), e)

\* _apply_effects: the keys present are applied in the order of the code;
\* where one raises, the changes made before it stay
ApplyEffects(s, e) ==
    IF EffectError(e) = "None" THEN ApplyKeys(s, e) ELSE ApplyKeys(s, Applied(e))

-----------------------------------------------------------------------------
(* engine.py: _trigger_hooks and make_choice                               *)

\* a mutant of Trigger: the callback registered last is called first
TriggerNewestFirst(hk, event, args, seen) ==
    [i \in 1..Len(Get(hk, event, << >>)) |->
        [event |-> event, cb |-> hk[event][Len(hk[event]) + 1 - i],
         args |-> args, seen |-> seen]]

\* _trigger_hooks(event, *args): the calls made, in registration order; seen
\* is the player state a callback finds when it is called
Trigger(hk, event, args, seen) ==
    [i \in 1..Len(Get(hk, event, << >>)) |->
        [event |-> event, cb |-> hk[event][i], args |-> args, seen |-> seen]]

DirectMorality(s, choice) ==
    IF Has(choice, "morality_change")
    THEN [s EXCEPT !.morality = Clamp(@ + choice.morality_change)] ELSE s

DirectKnowledge(s, choice) ==
    IF Has(choice, "knowledge_gain") THEN GainKnowledge(s, choice.knowledge_gain) ELSE s

DirectGold(s, choice) ==
    IF Has(choice, "gold_change")
    THEN [s EXCEPT !.gold = Floor0(@ + choice.gold_change)] ELSE s

DirectHp(s, choice) ==
    IF Has(choice, "hp_change") THEN [s EXCEPT !.hp = Clamp(@ + choice.hp_change)] ELSE s

\* the direct stat changes of make_choice, in the order of the code
DirectChanges(s, choice) ==
    DirectHp(DirectGold(DirectKnowledge(DirectMorality(s, choice), choice), choice), choice)

\* a mutant of ChoiceEffects: the effect set's hp and morality deltas are
\* merged into the direct deltas and clamped once
ChoiceEffectsMerged(s, choice) ==
    LET e  == Opt(choice, "effects")
        s1 == ApplyEffects(s, [k \in (DOMAIN e) \ {"hp_change", "morality_change"} |-> e[k]])
        c1 == [k \in (DOMAIN choice) \cup ((DOMAIN e) \cap {"hp_change", "morality_change"}) |->
                 IF k \in {"hp_change", "morality_change"}
                 THEN Get(e, k, 0) + Get(choice, k, 0) ELSE choice[k]]
    IN  DirectChanges(s1, c1)

\* if choice.effects: self._apply_effects(choice.effects)
ChoiceEffectSet(s, choice) ==
    IF DOMAIN Opt(choice, "effects") # {} THEN ApplyEffects(s, choice.effects) ELSE s

\* make_choice lines 275-291: the choice's effects, then its direct changes
ChoiceEffects(s, choice) == DirectChanges(ChoiceEffectSet(s, choice), choice)

\* The history entry f"{current_scene}:{choice.text}"
HistoryEntry(s, choice) == s.current_scene \o ":" \o choice.text

\* a mutant of RecordHistory: a choice that stays in the scene is not recorded
RecordHistoryMoves(s, choice) ==
    IF choice.next_scene = s.current_scene THEN s
    ELSE [s EXCEPT !.history = Append(@, HistoryEntry(s, choice))]

\* self.state.history.append(...)
RecordHistory(s, choice) == [s EXCEPT !.history = Append(@, HistoryEntry(s, choice))]

\* self.state.current_scene = choice.next_scene
MoveTo(s, choice) == [s EXCEPT !.current_scene = choice.next_scene]

\* a mutant of EnterScene: the on_enter effects of the scene an on_enter
\* effect jumps to are applied as well
EnterSceneChained(s) ==
    IF /\ s.current_scene \in DOMAIN TextScenes
       /\ DOMAIN Opt(TextScenes[s.current_scene], "on_enter") # {}
    THEN IF /\ ApplyEffects(s, TextScenes[s.current_scene].on_enter).current_scene
                   \in DOMAIN TextScenes \ {s.current_scene}
         THEN ApplyEffects(ApplyEffects(s, TextScenes[s.current_scene].on_enter),
                  Opt(TextScenes[ApplyEffects(s, TextScenes[s.current_scene].on_enter).current_scene],
                      "on_enter"))
         ELSE ApplyEffects(s, TextScenes[s.current_scene].on_enter)
    ELSE s

\* scene = self.get_current_scene(); if scene and scene.on_enter: ...
EnterScene(s) ==
    IF /\ s.current_scene \in DOMAIN TextScenes
       /\ DOMAIN Opt(TextScenes[s.current_scene], "on_enter") # {}
    THEN ApplyEffects(s, TextScenes[s.current_scene].on_enter)
    ELSE s

\* the exception the on_enter effects of the choice's target raise
EnterError(choice) ==
    IF choice.next_scene \in DOMAIN TextScenes
    THEN EffectError(Opt(TextScenes[choice.next_scene], "on_enter"))
    ELSE "None"

\* make_choice from the history entry on, the choice's effects having
\* raised nothing: sA is the state with the history entry, sB the state
\* after the choice's changes, sC the state after the move and the on_enter
\* effects; the on_scene_enter hooks are not reached if on_enter raises
ChoiceSteps(hk, choice, sA, sB, sC) ==
    [ret |-> IF EnterError(choice) = "None" THEN "True" ELSE EnterError(choice),
     state |-> sC,
     fired |-> Trigger(hk, "on_scene_exit", <<sA.current_scene>>, sA)
               \o Trigger(hk, "on_choice", <<choice>>, sB)
               \o (IF EnterError(choice) = "None"
                    THEN Trigger(hk, "on_scene_enter",
                                 <<sB.current_scene, sC.current_scene>>, sC)
                    ELSE << >>)]

\* make_choice where the choice's effects raise: the history entry and the
\* effects before the offending key stay, the exception goes up
ChoiceRaises(hk, choice, sA) ==
    [ret |-> EffectError(choice.effects),
     state |-> ApplyEffects(sA, choice.effects),
     fired |-> Trigger(hk, "on_scene_exit", <<sA.current_scene>>, sA)]

TakeChoice(s, hk, choice) ==
    IF EffectError(Opt(choice, "effects")) # "None"
    THEN ChoiceRaises(hk, choice, RecordHistory(s, choice))
    ELSE ChoiceSteps(hk, choice,
                RecordHistory(s, choice),
                ChoiceEffects(RecordHistory(s, choice), choice),
                EnterScene(MoveTo(ChoiceEffects(RecordHistory(s, choice), choice), choice)))

\* what make_choice does once the available choices are known
ChooseFrom(s, hk, i, av) ==
    IF av.exc # "None" THEN [ret |-> av.exc, state |-> s, fired |-> << >>]
    ELSE IF i < 0 \/ i >= Len(av.val)
    THEN [ret |-> "False", state |-> s, fired |-> << >>]
    ELSE TakeChoice(s, hk, av.val[i + 1])

\* make_choice(choice_index): the value returned (or the exception), the
\* player state it leaves and the hook calls it makes
MakeChoiceOutcome(s, hk, i) == ChooseFrom(s, hk, i, GetAvailableChoices(s))

-----------------------------------------------------------------------------
(* engine.py: render_scene, save_game, load_game                           *)

\* a Scene field that defaults to None
OrNone(d, k) == IF k \in DOMAIN d THEN d[k] ELSE "None"

\* the entries of the "state" dict that render_scene fills with the list and
\* dict objects of self.state themselves, not with copies (engine.py lines
\* 475-477, game_engine.py lines 331-332)
SharedEntries == {"inventory", "achievements", "stats"}

\* what the "state" dict of a render_scene result shows once make_choice has
\* brought the GameState to s2: make_choice changes the lists and the stats
\* dict in place (append, remove, item assignment), so the shared entries
\* show the values of s2, and the numbers those of the time of the call
ShownAfter(shown, s2) ==
    [k \in DOMAIN shown |-> IF k \in SharedEntries THEN s2[k] ELSE shown[k]]

RenderOf(scene, s, av) ==
    IF av.exc # "None" THEN [ret |-> av.exc, val |-> << >>]
    ELSE [ret |-> "value",
          val |-> [title |-> scene.title,
                   description |-> scene.description,
                   choices |-> [i \in 1..Len(av.val) |->
                                   [index |-> i - 1, text |-> av.val[i].text]],
                   state |-> [hp |-> s.hp, morality |-> s.morality,
                              size |-> s.size, knowledge |-> s.knowledge,
                              gold |-> s.gold, inventory |-> s.inventory,
                              achievements |-> s.achievements,
                              stats |-> s.stats],
                   media |-> [image_prompt |-> OrNone(scene, "image_prompt"),
                              music |-> OrNone(scene, "music"),
                              narrator |-> OrNone(scene, "narrator")]]]

\* render_scene: the dict returned, or the exception raised
RenderOutcome(s) ==
    IF s.current_scene \notin DOMAIN TextScenes
    THEN [ret |-> "value", val |-> [error |-> "Scene not found"]]
    ELSE RenderOf(TextScenes[s.current_scene], s, GetAvailableChoices(s))

\* a mutant of ToDict: the history is not written
ToDictNoHistory(s, fields) == [k \in fields \ {"history"} |-> s[k]]

\* GameState.to_dict / dataclasses.asdict: one key per dataclass field
ToDict(s, fields) == [k \in fields |-> s[k]]

\* GameState.from_dict / GameState(**data): a field missing from data takes
\* its default (the caller has checked that data names no other key)
FromDict(d, defaults) ==
    [k \in DOMAIN defaults |-> IF k \in DOMAIN d THEN d[k] ELSE defaults[k]]

\* save_dir / f"{slot_name}.json"
SavePath(slot) == slot \o ".json"

\* datetime.now().isoformat() at instant now: a str; two of them compare as
\* their instants do
IsoFormat(now) == [iso |-> now]

\* a JSON number where the code expects a str
JsonNumber(n) == [num |-> n]

\* a file whose text is not JSON
Unparseable == [pyraw |-> "not json"]

\* The document save_game writes
TextSaveData(s, now) ==
    [game_info |-> TextGameInfo,
     state     |-> ToDict(s, TextFields),
     timestamp |-> IsoFormat(now),
     version   |-> Get(TextGameInfo, "version", "2.0")]

\* a mutant of LoadOutcome: a field the record omits keeps the value the
\* player state held before the load
LoadOutcomeMerging(s, doc, defaults) ==
    IF doc = Unparseable THEN [ret |-> "JSONDecodeError", state |-> s]
    ELSE IF ~Has(doc, "state") THEN [ret |-> "KeyError", state |-> s]
    ELSE IF ~(DOMAIN doc.state \subseteq DOMAIN defaults)
    THEN [ret |-> "TypeError", state |-> s]
    ELSE [ret |-> "True", state |-> FromDict(doc.state, s)]

\* load_game on an existing file: the value returned (or the exception) and
\* the player state it leaves
LoadOutcome(s, doc, defaults) ==
    IF doc = Unparseable THEN [ret |-> "JSONDecodeError", state |-> s]
    ELSE IF ~Has(doc, "state") THEN [ret |-> "KeyError", state |-> s]
    ELSE IF ~(DOMAIN doc.state \subseteq DOMAIN defaults)
    THEN [ret |-> "TypeError", state |-> s]
    ELSE [ret |-> "True", state |-> FromDict(doc.state, defaults)]

\* a mutant of LoadGameOutcome: no exists() check, open() raises
LoadGameNoExistsCheck(s, fs, slot, defaults) ==
    IF ~Has(fs, slot) THEN [ret |-> "FileNotFoundError", state |-> s]
    ELSE LoadOutcome(s, fs[slot], defaults)

\* load_game(slot_name): False when the file does not exist
LoadGameOutcome(s, fs, slot, defaults) ==
    IF ~Has(fs, slot) THEN [ret |-> "False", state |-> s]
    ELSE LoadOutcome(s, fs[slot], defaults)

-----------------------------------------------------------------------------
(* engine.py: list_saves; game_engine.py: get_save_files                   *)

\* The default the goose scripts use where engine.py says "Unknown": a
\* two-character Chinese word, written here in Latin letters
Weizhi == "weizhi"

\* a < b on two timestamps of the same type; a str that is no ISO timestamp
\* ("Unknown", Weizhi) starts with a letter and sorts after every ISO
\* timestamp, which starts with a digit
StampLess(a, b) ==
    IF Has(a, "num") THEN a.num < b.num
    ELSE IF Has(a, "iso") THEN (IF Has(b, "iso") THEN a.iso < b.iso ELSE TRUE)
    ELSE FALSE

\* sorted(..., reverse=True) is stable: x goes before the first entry with a
\* smaller timestamp, behind the entries that are equal to it
InsertPoint(l, x) ==
    IF \A i \in 1..Len(l) : ~StampLess(l[i].timestamp, x.timestamp) THEN Len(l) + 1
    ELSE CHOOSE i \in 1..Len(l) :
            /\ StampLess(l[i].timestamp, x.timestamp)
            /\ \A j \in 1..(i - 1) : ~StampLess(l[j].timestamp, x.timestamp)

InsertDesc(l, x) ==
    SubSeq(l, 1, InsertPoint(l, x) - 1) \o <<x>> \o SubSeq(l, InsertPoint(l, x), Len(l))

RECURSIVE SortedDesc(_)
SortedDesc(l) ==
    IF l = << >> THEN << >>
    ELSE InsertDesc(SortedDesc(SubSeq(l, 1, Len(l) - 1)), l[Len(l)])

\* sorted(saves, key=lambda x: x["timestamp"], reverse=True); a < b raises
\* TypeError between a str and a number
SortSaves(saves) ==
    IF \E i, j \in 1..Len(saves) :
          Has(saves[i].timestamp, "num") # Has(saves[j].timestamp, "num")
    THEN [ret |-> "TypeError", val |-> << >>]
    ELSE [ret |-> "value", val |-> SortedDesc(saves)]

\* the orders in which glob("*.json") / os.listdir may give the files
GlobOrders(names) ==
    {q \in [1..Cardinality(names) -> names] : \A i, j \in DOMAIN q : q[i] = q[j] => i = j}

\* the body of the try block does not raise
EngineSaveReadable(doc) ==
    doc # Unparseable /\ Has(doc, "state") /\ Has(doc.state, "current_scene")

\* the summary of one save file; GameEngine.get_save_files gives no version
EngineSummary(name, doc, unknown, versioned) ==
    IF versioned
    THEN [name |-> name, timestamp |-> Get(doc, "timestamp", JsonString(unknown)),
          scene |-> doc.state.current_scene, version |-> Get(doc, "version", unknown)]
    ELSE [name |-> name, timestamp |-> Get(doc, "timestamp", JsonString(unknown)),
          scene |-> doc.state.current_scene]

RECURSIVE EngineSummaries(_, _, _, _)
EngineSummaries(fs, order, unknown, versioned) ==
    IF order = << >> THEN << >>
    ELSE IF EngineSaveReadable(fs[Head(order)])
    THEN <<EngineSummary(Head(order), fs[Head(order)], unknown, versioned)>>
            \o EngineSummaries(fs, Tail(order), unknown, versioned)
    ELSE EngineSummaries(fs, Tail(order), unknown, versioned)

\* list_saves() / get_save_files() when the directory is read in this order
ListSavesOutcome(fs, order, unknown, versioned) ==
    SortSaves(EngineSummaries(fs, order, unknown, versioned))

\* Files another program or the player may put into the save directory, and
\* the files SaveManager.import_save may be pointed at
ExternalFiles ==
    [junk    |-> Unparseable,
     notes   |-> [foo |-> 1],
     partial |-> [state |-> [hp |-> 50]],
     stamped |-> [state |-> [current_scene |-> "gate"], timestamp |-> JsonNumber(5)],
     modded  |-> [state |-> [current_scene |-> "start", mana |-> 3]]]

-----------------------------------------------------------------------------
(* engine.py: get_ending                                                   *)

\* endings = self.script.get("endings", [])
TextEndings == Get(Script, "endings", << >>)

\* the loop over the endings: an ending without requirements (None or {})
\* is passed over, the others are checked
EndingChecks(s, es) ==
    [i \in 1..Len(es) |->
        IF DOMAIN Opt(es[i], "requirements") = {} THEN "False"
        ELSE CheckRequirements(s, es[i].requirements)]

\* the morality bands of the default endings
TierOf(morality) ==
    IF morality >= 80 THEN "perfect"
    ELSE IF morality >= 60 THEN "good"
    ELSE IF morality >= 40 THEN "neutral"
    ELSE "bad"

\* next((e for e in endings if e.get("tier") == tier), None)
FirstOfTier(es, tier) ==
    IF \E i \in 1..Len(es) : Has(es[i], "tier") /\ es[i].tier = tier
    THEN [ret |-> "value",
          val |-> es[CHOOSE i \in 1..Len(es) :
                        /\ Has(es[i], "tier") /\ es[i].tier = tier
                        /\ \A j \in 1..(i - 1) : ~(Has(es[j], "tier") /\ es[j].tier = tier)]]
    ELSE [ret |-> "None", val |-> << >>]

\* the first check that does not come out False decides: the ending is
\* returned, or the exception of the check goes up
EndingOf(s, es, checks) ==
    IF \E i \in 1..Len(checks) : checks[i] # "False"
    THEN LET i == CHOOSE j \in 1..Len(checks) :
                     checks[j] # "False" /\ \A k \in 1..(j - 1) : checks[k] = "False"
         IN  IF checks[i] = "True" THEN [ret |-> "value", val |-> es[i]]
             ELSE [ret |-> checks[i], val |-> << >>]
    ELSE FirstOfTier(es, TierOf(s.morality))

\* get_ending(): the ending returned, None, or the exception raised
GetEndingOutcome(s) == EndingOf(s, TextEndings, EndingChecks(s, TextEndings))

-----------------------------------------------------------------------------
(* game_engine.py: GameEngine.  The achievement names of the source are    *)
(* Chinese strings; the model writes them in English.                      *)

GooseScript ==
    [game_info |-> [title |-> "Nils"],
     scenes |-> <<
        [id |-> "start", title |-> "Farm", description |-> "Nils at home",
         choices |-> <<
            [text |-> "help", next_scene |-> "lake", moral_change |-> 20,
             effects |-> [hp_change |-> -30, add_item |-> "feather",
                          set_flag |-> [kind |-> TRUE], size_change |-> 95,
                          add_achievement |-> "Brave"]],
            [text |-> "learn", next_scene |-> "start", knowledge_gain |-> 300,
             effects |-> [add_item |-> "feather", add_achievement |-> "Brave"]],
            [text |-> "forget", next_scene |-> "start", knowledge_gain |-> -250],
            [text |-> "tease", next_scene |-> "start", moral_change |-> -70,
             effects |-> [game_over |-> TRUE, hp_change |-> -150]],
            [text |-> "show", next_scene |-> "start",
             requirements |-> [has_item |-> "feather"]]
         >>],
        [id |-> "lake", title |-> "Lake", description |-> "Wild geese",
         music |-> "peaceful",
         choices |-> <<
            [text |-> "fly", next_scene |-> "ending_good",
             requirements |-> [has_item |-> "feather", flag |-> <<"kind", TRUE>>,
                               morality_min |-> 60, morality_max |-> 100,
                               size_min |-> 50, size_max |-> 100,
                               has_achievement |-> "Brave"]],
            [text |-> "drop", next_scene |-> "start", moral_change |-> -100,
             effects |-> [remove_item |-> "feather", size_change |-> -200,
                          hp_change |-> 250]],
            [text |-> "hide", next_scene |-> "start",
             requirements |-> [morality_max |-> 40]]
         >>]
     >>]

GooseFields ==
    {"current_scene", "hp", "morality", "size", "knowledge",
     "inventory", "achievements", "flags", "history"}

\* GameState() after __post_init__
GooseDefaults ==
    [current_scene |-> "start", hp |-> 100, morality |-> 50, size |-> 10,
     knowledge |-> 0, inventory |-> << >>, achievements |-> << >>,
     flags |-> << >>, history |-> << >>]

GooseChoiceFields ==
    {"text", "next_scene", "requirements", "effects", "moral_change", "knowledge_gain"}

GooseSceneFields ==
    {"id", "title", "description", "choices", "image_prompt", "music", "narrator"}

GooseScenes == LoadScenes(GooseScript, GooseSceneFields, GooseChoiceFields)

\* a mutant of GooseCheckRequirements: the has_item check is missing
GooseCheckRequirementsNoItem(s, r) ==
    IF DOMAIN r = {} THEN "True"
    ELSE IF \/ Has(r, "flag") /\ ~(Has(s.flags, r.flag[1]) /\ s.flags[r.flag[1]] = r.flag[2])
            \/ Has(r, "morality_min") /\ s.morality < r.morality_min
            \/ Has(r, "morality_max") /\ s.morality > r.morality_max
            \/ Has(r, "size_min") /\ s.size < r.size_min
            \/ Has(r, "size_max") /\ s.size > r.size_max
            \/ Has(r, "has_achievement") /\ ~InList(r.has_achievement, s.achievements)
         THEN "False"
    ELSE "True"

GooseCheckRequirements(s, r) ==
    IF DOMAIN r = {} THEN "True"
    ELSE IF \/ Has(r, "has_item") /\ ~InList(r.has_item, s.inventory)
            \/ Has(r, "flag") /\ ~(Has(s.flags, r.flag[1]) /\ s.flags[r.flag[1]] = r.flag[2])
            \/ Has(r, "morality_min") /\ s.morality < r.morality_min
            \/ Has(r, "morality_max") /\ s.morality > r.morality_max
            \/ Has(r, "size_min") /\ s.size < r.size_min
            \/ Has(r, "size_max") /\ s.size > r.size_max
            \/ Has(r, "has_achievement") /\ ~InList(r.has_achievement, s.achievements)
         THEN "False"
    ELSE "True"

GooseRequirementChecks(s, cs) ==
    [i \in 1..Len(cs) |-> GooseCheckRequirements(s, Opt(cs[i], "requirements"))]

GooseGetAvailableChoices(s) ==
    IF s.current_scene \notin DOMAIN GooseScenes
    THEN [exc |-> "None", val |-> << >>]
    ELSE FilterChoices(GooseScenes[s.current_scene].choices,
                       GooseRequirementChecks(s, GooseScenes[s.current_scene].choices))

\* the four fixed milestones, in the order of the code
GooseMilestones ==
    << <<100, "NatureObserver">>, <<300, "LittleNaturalist">>,
       <<500, "GeographyMaster">>, <<800, "StarOfWisdom">> >>

RECURSIVE GooseGrant(_, _, _)
GooseGrant(ach, knowledge, ms) ==
    IF ms = << >> THEN ach
    ELSE GooseGrant(
            IF knowledge >= Head(ms)[1] /\ ~InList(Head(ms)[2], ach)
            THEN Append(ach, Head(ms)[2]) ELSE ach,
            knowledge, Tail(ms))

GooseCheckKnowledgeAchievements(s) ==
    [s EXCEPT !.achievements = GooseGrant(@, s.knowledge, GooseMilestones)]

GooseApplyEffects(s, e) ==
    GameOver(AddAchievement(SetFlag(SizeChange(HpChange(
    RemoveItem(AddItem(s, e), e), e), e), e), e), e)

GooseChoiceEffectSet(s, choice) ==
    IF DOMAIN Opt(choice, "effects") # {} THEN GooseApplyEffects(s, choice.effects) ELSE s

GooseMoralChange(s, choice) ==
    IF Has(choice, "moral_change")
    THEN [s EXCEPT !.morality = Clamp(@ + choice.moral_change)] ELSE s

GooseKnowledgeGain(s, choice) ==
    IF Has(choice, "knowledge_gain")
    THEN GooseCheckKnowledgeAchievements([s EXCEPT !.knowledge = @ + choice.knowledge_gain])
    ELSE s

GooseTakeChoice(s, choice) ==
    [ret |-> "True",
     state |-> MoveTo(GooseKnowledgeGain(GooseMoralChange(
                 GooseChoiceEffectSet(RecordHistory(s, choice), choice), choice), choice), choice),
     fired |-> << >>]

GooseChooseFrom(s, i, av) ==
    IF i < 0 \/ i >= Len(av.val)
    THEN [ret |-> "False", state |-> s, fired |-> << >>]
    ELSE GooseTakeChoice(s, av.val[i + 1])

GooseMakeChoiceOutcome(s, i) == GooseChooseFrom(s, i, GooseGetAvailableChoices(s))

GooseRenderOf(scene, s, av) ==
    [ret |-> "value",
     val |-> [title |-> scene.title,
              description |-> scene.description,
              choices |-> [i \in 1..Len(av.val) |->
                              [index |-> i - 1, text |-> av.val[i].text]],
              state |-> [hp |-> s.hp, morality |-> s.morality, size |-> s.size,
                         knowledge |-> s.knowledge, inventory |-> s.inventory,
                         achievements |-> s.achievements],
              image_prompt |-> OrNone(scene, "image_prompt"),
              music |-> OrNone(scene, "music"),
              narrator |-> OrNone(scene, "narrator")]]

GooseRenderOutcome(s) ==
    IF s.current_scene \notin DOMAIN GooseScenes
    THEN [ret |-> "value", val |-> [error |-> "no such scene"]]
    ELSE GooseRenderOf(GooseScenes[s.current_scene], s, GooseGetAvailableChoices(s))

\* Endings lists a goose script may declare under "endings".  No other
\* operation of the engine reads them, so the list of the script is drawn
\* at the get_ending call.
GooseEndingLists ==
    LET Crowned == [title |-> "Crowned", description |-> "A royal reward",
                    requirements |-> [has_item |-> "crown"]]
        Flight  == [title |-> "Flight", description |-> "Away with the geese",
                    requirements |-> [has_item |-> "feather", morality_min |-> 60]]
        Home    == [title |-> "Home", description |-> "Back on the farm"]
        Alone   == [title |-> "Alone", description |-> "Nobody waits",
                    requirements |-> [morality_max |-> 30]]
    IN  {<< >>, <<Home>>, <<Crowned, Home>>, <<Crowned, Home, Flight>>,
         <<Home, Crowned, Alone, Flight>>}

\* the dicts get_ending returns when the list is too short (the titles and
\* descriptions of the source are Chinese)
GooseDefaultEndings ==
    << [title |-> "PerfectEnding", description |-> "kind and brave"],
       [title |-> "OrdinaryEnding", description |-> "room to improve"],
       [title |-> "NeedsWork", description |-> "learn to care"] >>

\* a mutant of GooseBand: the bands of engine.py (80 and 60) for the first two
GooseBandOfText(morality) ==
    IF morality >= 80 THEN 1 ELSE IF morality >= 60 THEN 2 ELSE 3

\* the position the morality picks: >= 70, >= 40, else
GooseBand(morality) ==
    IF morality >= 70 THEN 1 ELSE IF morality >= 40 THEN 2 ELSE 3

\* GameEngine.get_ending() on a script with endings es: the first ending
\* with non-empty requirements that check True, else the ending at the
\* position of the morality band, else the built-in dict of that band
GooseGetEndingOutcome(s, es) ==
    LET hit == {i \in 1..Len(es) :
                  /\ DOMAIN Opt(es[i], "requirements") # {}
                  /\ GooseCheckRequirements(s, es[i].requirements) = "True"}
        band == GooseBand(s.morality)
    IN  IF hit # {}
        THEN [ret |-> "value", val |-> es[CHOOSE i \in hit : \A j \in hit : i <= j]]
        ELSE IF Len(es) >= band THEN [ret |-> "value", val |-> es[band]]
        ELSE [ret |-> "value", val |-> GooseDefaultEndings[band]]

GooseSaveData(s, now) ==
    [state |-> ToDict(s, GooseFields), timestamp |-> IsoFormat(now), version |-> "1.0"]

-----------------------------------------------------------------------------
(* save_manager.py: SaveManager                                            *)

\* self.meta_file = save_dir / "saves_meta.json"
MetaFile == "saves_meta"

SMSaveData(slot, game_data, now) ==
    [metadata |-> [timestamp |-> IsoFormat(now), version |-> "1.0", slot_name |-> slot],
     game_data |-> game_data]

\* _update_metadata: read the meta file if it exists, set meta[slot], write
UpdateMetadata(fs, slot, metadata) ==
    Put(fs, MetaFile, Put(Get(fs, MetaFile, << >>), slot, metadata))

\* SaveManager.save_game: the slot file, then the metadata
SMWrite(fs, slot, game_data, now) ==
    UpdateMetadata(Put(fs, slot, SMSaveData(slot, game_data, now)), slot,
                   SMSaveData(slot, game_data, now).metadata)

\* _remove_metadata: nothing without a meta file; else the key is deleted if
\* present and the file written back
RemoveMetadata(fs, slot) ==
    IF ~Has(fs, MetaFile) THEN fs
    ELSE Put(fs, MetaFile, Del(fs[MetaFile], slot))

\* SaveManager.delete_save: False when the slot file does not exist; else
\* the file is unlinked and the key removed from the metadata
SMDeleteOutcome(fs, slot) ==
    IF ~Has(fs, slot) THEN [ret |-> "False", files |-> fs]
    ELSE [ret |-> "True", files |-> RemoveMetadata(Del(fs, slot), slot)]

\* SaveManager.load_game: None when the file is missing, else
\* save_data.get("game_data")
SMLoadOutcome(fs, slot) ==
    IF ~Has(fs, slot) THEN [ret |-> "None", val |-> << >>]
    ELSE IF fs[slot] = Unparseable THEN [ret |-> "JSONDecodeError", val |-> << >>]
    ELSE IF ~Has(fs[slot], "game_data") THEN [ret |-> "None", val |-> << >>]
    ELSE [ret |-> "value", val |-> fs[slot].game_data]

\* the summary of one save file that parses (without its chapter label,
\* which is a function of current_scene)
SMSummary(name, metadata, game_data) ==
    [name |-> name,
     timestamp |-> Get(metadata, "timestamp", JsonString(Weizhi)),
     version |-> Get(metadata, "version", Weizhi),
     current_scene |-> Get(game_data, "current_scene", Weizhi),
     hp |-> Get(game_data, "hp", 100),
     morality |-> Get(game_data, "morality", 50),
     knowledge |-> Get(game_data, "knowledge", 0),
     achievements_count |-> Len(Get(game_data, "achievements", << >>))]

RECURSIVE SMSummaries(_, _)
SMSummaries(fs, order) ==
    IF order = << >> THEN << >>
    ELSE IF Head(order) # MetaFile /\ fs[Head(order)] # Unparseable
    THEN <<SMSummary(Head(order), Get(fs[Head(order)], "metadata", << >>),
                     Get(fs[Head(order)], "game_data", << >>))>>
            \o SMSummaries(fs, Tail(order))
    ELSE SMSummaries(fs, Tail(order))

\* SaveManager.list_saves() when the directory is read in this order
SMListSavesOutcome(fs, order) == SortSaves(SMSummaries(fs, order))

\* SaveManager.import_save: False when the path does not exist; else the
\* file is copied and, if it parses, its metadata entered in the meta file
SMImportOutcome(fs, path, slot) ==
    IF ~Has(ExternalFiles, path) THEN [ret |-> "False", files |-> fs]
    ELSE IF ExternalFiles[path] = Unparseable
    THEN [ret |-> "True", files |-> Put(fs, slot, ExternalFiles[path])]
    ELSE [ret |-> "True",
          files |-> UpdateMetadata(Put(fs, slot, ExternalFiles[path]), slot,
                                   Get(ExternalFiles[path], "metadata", << >>))]

\* The paths the caller of import_save passes
ImportPaths == {"missing", "junk", "notes"}

\* a mutant of OnSceneChangeOutcome: the save waits for the counter to pass
\* the interval
OnSceneChangeLate(a, fs, slot, game_data, now) ==
    IF a.scene_count + 1 > a.auto_save_interval
    THEN [auto |-> [a EXCEPT !.scene_count = 0],
          files |-> SMWrite(fs, slot, game_data, now)]
    ELSE [auto |-> [a EXCEPT !.scene_count = @ + 1], files |-> fs]

\* AutoSaveManager.on_scene_change: count the scene, and at the interval save
\* through the SaveManager and start counting again
OnSceneChangeOutcome(a, fs, slot, game_data, now) ==
    IF a.scene_count + 1 >= a.auto_save_interval
    THEN [auto |-> [a EXCEPT !.scene_count = 0],
          files |-> SMWrite(fs, slot, game_data, now)]
    ELSE [auto |-> [a EXCEPT !.scene_count = @ + 1], files |-> fs]

\* The intervals the application constructs the AutoSaveManager with, and the
\* slot it saves to
Intervals == {1, 2, 3}

AutoSlot == "autosave"

\* The game data the caller of the SaveManager hands over
GameDatas ==
    {[current_scene |-> "chapter1_intro", hp |-> 100, morality |-> 50, knowledge |-> 100],
     [current_scene |-> "start", hp |-> 40, achievements |-> <<"Brave">>]}

\* The slot names the caller of the SaveManager uses
SMSlotNames == {"test", "autosave", "saves_meta"}

-----------------------------------------------------------------------------
(* The session                                                             *)

\* The slot names the caller uses
SlotNames == {"autosave", "slot1"}

\* The event names the caller passes to register_hook
EventNames == HookEvents \cup {"on_quit"}

NumHooks == IF prog \in TextProgs
            THEN Len(hooks.on_scene_enter) + Len(hooks.on_scene_exit)
                 + Len(hooks.on_choice) + Len(hooks.on_save) + Len(hooks.on_load)
            ELSE 0

\* State-changing calls so far
Used == (IF prog \in TextProgs \cup {"goose"} THEN Len(state.history)
         ELSE IF prog = "pair" THEN Len(state.ins.a) + Len(state.ins.b)
         ELSE 0)
        + NumHooks + clock

\* The two engines of a "pair" session
Instances == {"a", "b"}

\* The indexes the caller of a "pair" session passes to make_choice
PairIndexes == {0, 1, 3}

\* a = TextAdventureEngine(script, ...); b = TextAdventureEngine(script, ...):
\* each __init__ makes its own GameState(), whose list and dict fields come
\* from default_factory, and keeps the caller's dict as self.script; ins is
\* the sequence of indexes each engine has been fed
PairInit ==
    [a |-> TextDefaults, b |-> TextDefaults, script |-> TextScript,
     ins |-> [a |-> << >>, b |-> << >>]]

Call(op, arg, ret, val, fired) ==
    [op |-> op, arg |-> arg, ret |-> ret, val |-> val, fired |-> fired]

Init ==
    /\ prog \in {"text", "lab", "goose", "savemgr", "auto", "pair"}
    /\ state \in CASE prog \in TextProgs -> {TextDefaults}
                    [] prog = "pair" -> {PairInit}
                    [] prog = "goose" -> {GooseDefaults}
                    [] prog = "auto" -> {[auto_save_interval |-> k, scene_count |-> 0] : k \in Intervals}
                    [] OTHER -> {<< >>}
    /\ hooks = IF prog \in TextProgs THEN [e \in HookEvents |-> << >>] ELSE << >>
    /\ files = << >>
    /\ clock = 0
    /\ last = Call("init", << >>, "None", << >>, << >>)

\* register_hook(event, callback); the callback is the n-th callable the
\* application registers for the event
RegisterHook(event) ==
    /\ prog = "text"
    /\ Used < MaxCalls
    /\ hooks' = IF event \in DOMAIN hooks
                THEN [hooks EXCEPT ![event] = Append(@, Len(@) + 1)]
                ELSE hooks
    /\ last' = Call("register_hook", event, "None", << >>, << >>)
    /\ UNCHANGED <<prog, state, files, clock>>

\* make_choice(i)
MakeChoice(i) ==
    /\ prog \in TextProgs
    /\ LET out == MakeChoiceOutcome(state, hooks, i)
       IN  /\ out.state # state => Used < MaxCalls
           /\ state' = out.state
           /\ last' = Call("make_choice", i, out.ret, << >>, out.fired)
    /\ UNCHANGED <<prog, hooks, files, clock>>

\* a mutant of PairMakeChoice: the GameState objects share their list and
\* dict fields, as they would with one mutable default for all instances
PairMakeChoiceShared(who, i) ==
    /\ prog = "pair"
    /\ Used < MaxCalls
    /\ LET out == MakeChoiceOutcome(state[who], [e \in HookEvents |-> << >>], i)
           shared == {"inventory", "achievements", "flags", "history", "stats"}
       IN  /\ state' = [x \in DOMAIN state |->
                          IF x = who THEN out.state
                          ELSE IF x \in Instances
                          THEN [k \in DOMAIN state[x] |->
                                   IF k \in shared THEN out.state[k] ELSE state[x][k]]
                          ELSE IF x = "ins" THEN [state.ins EXCEPT ![who] = Append(@, i)]
                          ELSE state[x]]
           /\ last' = Call("make_choice", <<who, i>>, out.ret, << >>, out.fired)
    /\ UNCHANGED <<prog, hooks, files, clock>>

\* who.make_choice(i) in a "pair" session: the call works on who.state; it
\* assigns to no other object, and reads self.script and the Choice objects
\* without writing to them
PairMakeChoice(who, i) ==
    /\ prog = "pair"
    /\ Used < MaxCalls
    /\ LET out == MakeChoiceOutcome(state[who], [e \in HookEvents |-> << >>], i)
       IN  /\ state' = [state EXCEPT ![who] = out.state,
                                     !.ins[who] = Append(@, i)]
           /\ last' = Call("make_choice", <<who, i>>, out.ret, << >>, out.fired)
    /\ UNCHANGED <<prog, hooks, files, clock>>

\* get_available_choices()
AvailableChoices ==
    /\ prog \in TextProgs
    /\ LET av == GetAvailableChoices(state)
       IN  last' = Call("get_available_choices", << >>,
                        IF av.exc = "None" THEN "value" ELSE av.exc, av.val, << >>)
    /\ UNCHANGED <<prog, state, hooks, files, clock>>

\* a mutant of RenderScene: rendering marks the scene as seen
RenderSceneMarks ==
    /\ prog \in TextProgs
    /\ LET out == RenderOutcome(state)
       IN  last' = Call("render_scene", << >>, out.ret, out.val, << >>)
    /\ state' = [state EXCEPT !.flags = Put(@, "seen", TRUE)]
    /\ UNCHANGED <<prog, hooks, files, clock>>

\* render_scene()
RenderScene ==
    /\ prog \in TextProgs
    /\ LET out == RenderOutcome(state)
       IN  last' = Call("render_scene", << >>, out.ret, out.val, << >>)
    /\ UNCHANGED <<prog, state, hooks, files, clock>>

\* get_ending()
GetEnding ==
    /\ prog = "text"
    /\ LET out == GetEndingOutcome(state)
       IN  last' = Call("get_ending", << >>, out.ret, out.val, << >>)
    /\ UNCHANGED <<prog, state, hooks, files, clock>>

\* save_game(slot)
SaveGame(slot) ==
    /\ prog \in TextProgs
    /\ Used < MaxCalls
    /\ files' = Put(files, slot, TextSaveData(state, clock))
    /\ clock' = clock + 1
    /\ last' = Call("save_game", slot, "value", SavePath(slot),
                    Trigger(hooks, "on_save", <<slot>>, state))
    /\ UNCHANGED <<prog, state, hooks>>

\* load_game(slot)
LoadGame(slot) ==
    /\ prog \in TextProgs
    /\ LET out == LoadGameOutcome(state, files, slot, TextDefaults)
       IN  /\ state' = out.state
           /\ last' = Call("load_game", slot, out.ret, << >>,
                           IF out.ret = "True"
                           THEN Trigger(hooks, "on_load", <<slot>>, out.state)
                           ELSE << >>)
    /\ UNCHANGED <<prog, hooks, files, clock>>

\* list_saves()
ListSaves ==
    /\ prog = "lab"
    /\ \E order \in GlobOrders(DOMAIN files) :
          last' = Call("list_saves", << >>,
                       ListSavesOutcome(files, order, "Unknown", TRUE).ret,
                       ListSavesOutcome(files, order, "Unknown", TRUE).val, << >>)
    /\ UNCHANGED <<prog, state, hooks, files, clock>>

\* a file of another origin appears in the save directory
ForeignFile(path, slot) ==
    /\ prog = "lab"
    /\ Used < MaxCalls
    /\ files' = Put(files, slot, ExternalFiles[path])
    /\ clock' = clock + 1
    /\ last' = Call("foreign_file", slot, "None", path, << >>)
    /\ UNCHANGED <<prog, state, hooks>>

\* GameEngine.make_choice(i)
GooseMakeChoice(i) ==
    /\ prog = "goose"
    /\ LET out == GooseMakeChoiceOutcome(state, i)
       IN  /\ out.ret = "True" => Used < MaxCalls
           /\ state' = out.state
           /\ last' = Call("make_choice", i, out.ret, << >>, out.fired)
    /\ UNCHANGED <<prog, hooks, files, clock>>

\* GameEngine.get_available_choices()
GooseAvailableChoices ==
    /\ prog = "goose"
    /\ last' = Call("get_available_choices", << >>, "value",
                    GooseGetAvailableChoices(state).val, << >>)
    /\ UNCHANGED <<prog, state, hooks, files, clock>>

\* GameEngine.render_scene()
GooseRenderScene ==
    /\ prog = "goose"
    /\ LET out == GooseRenderOutcome(state)
       IN  last' = Call("render_scene", << >>, out.ret, out.val, << >>)
    /\ UNCHANGED <<prog, state, hooks, files, clock>>

\* GameEngine.get_ending() of an engine whose script declares endings es
GooseGetEnding(es) ==
    /\ prog = "goose"
    /\ LET out == GooseGetEndingOutcome(state, es)
       IN  last' = Call("get_ending", es, out.ret, out.val, << >>)
    /\ UNCHANGED <<prog, state, hooks, files, clock>>

\* a mutant of GooseSaveGame: saving starts a new history
GooseSaveGameTrims(slot) ==
    /\ prog = "goose"
    /\ Used < MaxCalls
    /\ files' = Put(files, slot, GooseSaveData(state, clock))
    /\ clock' = clock + 1
    /\ last' = Call("save_game", slot, "value", SavePath(slot), << >>)
    /\ state' = [state EXCEPT !.history = << >>]
    /\ UNCHANGED <<prog, hooks>>

\* GameEngine.save_game(slot)
GooseSaveGame(slot) ==
    /\ prog = "goose"
    /\ Used < MaxCalls
    /\ files' = Put(files, slot, GooseSaveData(state, clock))
    /\ clock' = clock + 1
    /\ last' = Call("save_game", slot, "value", SavePath(slot), << >>)
    /\ UNCHANGED <<prog, state, hooks>>

\* GameEngine.load_game(slot)
GooseLoadGame(slot) ==
    /\ prog = "goose"
    /\ LET out == LoadGameOutcome(state, files, slot, GooseDefaults)
       IN  /\ state' = out.state
           /\ last' = Call("load_game", slot, out.ret, << >>, << >>)
    /\ UNCHANGED <<prog, hooks, files, clock>>

\* GameEngine.get_save_files()
GooseGetSaveFiles ==
    /\ prog = "goose"
    /\ \E order \in GlobOrders(DOMAIN files) :
          last' = Call("get_save_files", << >>,
                       ListSavesOutcome(files, order, Weizhi, FALSE).ret,
                       ListSavesOutcome(files, order, Weizhi, FALSE).val, << >>)
    /\ UNCHANGED <<prog, state, hooks, files, clock>>

\* SaveManager.save_game(slot, game_data)
SMSaveGame(slot, game_data) ==
    /\ prog \in {"savemgr", "auto"}
    /\ prog = "auto" => slot = AutoSlot
    /\ Used < MaxCalls
    /\ files' = SMWrite(files, slot, game_data, clock)
    /\ clock' = clock + 1
    /\ last' = Call("save_game", slot, "value", SavePath(slot), << >>)
    /\ UNCHANGED <<prog, state, hooks>>

\* SaveManager.load_game(slot)
SMLoadGame(slot) ==
    /\ prog = "savemgr"
    /\ LET out == SMLoadOutcome(files, slot)
       IN  last' = Call("load_game", slot, out.ret, out.val, << >>)
    /\ UNCHANGED <<prog, state, hooks, files, clock>>

\* SaveManager.delete_save(slot)
SMDeleteSave(slot) ==
    /\ prog = "savemgr"
    /\ files' = SMDeleteOutcome(files, slot).files
    /\ last' = Call("delete_save", slot, SMDeleteOutcome(files, slot).ret, << >>, << >>)
    /\ UNCHANGED <<prog, state, hooks, clock>>

\* SaveManager.list_saves()
SMListSaves ==
    /\ prog = "savemgr"
    /\ \E order \in GlobOrders(DOMAIN files) :
          last' = Call("list_saves", << >>, SMListSavesOutcome(files, order).ret,
                       SMListSavesOutcome(files, order).val, << >>)
    /\ UNCHANGED <<prog, state, hooks, files, clock>>

\* SaveManager.import_save(path, slot)
SMImportSave(path, slot) ==
    /\ prog = "savemgr"
    /\ Used < MaxCalls
    /\ files' = SMImportOutcome(files, path, slot).files
    /\ clock' = clock + 1
    /\ last' = Call("import_save", slot, SMImportOutcome(files, path, slot).ret,
                    path, << >>)
    /\ UNCHANGED <<prog, state, hooks>>

\* AutoSaveManager.on_scene_change(slot, game_data)
OnSceneChange(slot, game_data) ==
    /\ prog = "auto"
    /\ Used < MaxCalls
    /\ state' = OnSceneChangeOutcome(state, files, slot, game_data, clock).auto
    /\ files' = OnSceneChangeOutcome(state, files, slot, game_data, clock).files
    /\ clock' = clock + 1
    /\ last' = Call("on_scene_change", slot, "None", << >>, << >>)
    /\ UNCHANGED <<prog, hooks>>

\* AutoSaveManager.force_save(slot, game_data)
ForceSave(slot, game_data) ==
    /\ prog = "auto"
    /\ Used < MaxCalls
    /\ files' = SMWrite(files, slot, game_data, clock)
    /\ state' = [state EXCEPT !.scene_count = 0]
    /\ clock' = clock + 1
    /\ last' = Call("force_save", slot, "None", << >>, << >>)
    /\ UNCHANGED <<prog, hooks>>

\* the numbers of choices the scenes of the two scripts declare
DeclaredCounts ==
    {Len(DemoScenes[id].choices) : id \in DOMAIN DemoScenes}
        \cup {Len(GooseScenes[id].choices) : id \in DOMAIN GooseScenes}

\* The indexes the caller passes to make_choice: from one below the first to
\* one above the last choice any scene declares
ChoiceIndexes == -1..(CHOOSE n \in DeclaredCounts : \A m \in DeclaredCounts : m <= n)

Next ==
    \/ \E e \in EventNames : RegisterHook(e)
    \/ \E i \in ChoiceIndexes : MakeChoice(i)
    \/ \E who \in Instances, i \in PairIndexes : PairMakeChoice(who, i)
    \/ AvailableChoices
    \/ RenderScene
    \/ GetEnding
    \/ \E slot \in SlotNames : SaveGame(slot)
    \/ \E slot \in SlotNames : LoadGame(slot)
    \/ ListSaves
    \/ \E path \in DOMAIN ExternalFiles : ForeignFile(path, "slot1")
    \/ \E i \in ChoiceIndexes : GooseMakeChoice(i)
    \/ GooseAvailableChoices
    \/ GooseRenderScene
    \/ \E es \in GooseEndingLists : GooseGetEnding(es)
    \/ \E slot \in SlotNames : GooseSaveGame(slot)
    \/ \E slot \in SlotNames : GooseLoadGame(slot)
    \/ GooseGetSaveFiles
    \/ \E slot \in SMSlotNames, d \in GameDatas : SMSaveGame(slot, d)
    \/ \E slot \in SMSlotNames : SMLoadGame(slot)
    \/ \E slot \in SMSlotNames : SMDeleteSave(slot)
    \/ SMListSaves
    \/ \E path \in ImportPaths : SMImportSave(path, "test")
    \/ \E d \in GameDatas : OnSceneChange(AutoSlot, d)
    \/ \E d \in GameDatas : ForceSave(AutoSlot, d)

Spec == Init /\ [][Next]_vars

-----------------------------------------------------------------------------
(* Properties                                                              *)

\* a session of an engine on a well-formed script
Playing == prog \in {"text", "goose"}

\* the scenes of the engine this session runs
Scenes == IF prog = "goose" THEN GooseScenes ELSE TextScenes

\* the choices the current scene declares (none for an undefined scene)
Declared(s) ==
    IF s.current_scene \in DOMAIN Scenes THEN Scenes[s.current_scene].choices ELSE << >>

Available(s) ==
    IF prog = "goose" THEN GooseGetAvailableChoices(s) ELSE GetAvailableChoices(s)

Check(s, c) ==
    IF prog = "goose" THEN GooseCheckRequirements(s, Opt(c, "requirements"))
    ELSE CheckRequirements(s, Opt(c, "requirements"))

NoDuplicates(l) == \A i, j \in 1..Len(l) : l[i] = l[j] => i = j

\* C1: in both engines hp, morality and size stay within 0..100 in every
\* reachable state, whatever deltas the choices, their effects and the
\* on_enter effects carry.
C1_StatsClamped ==
    Playing => /\ state.hp \in 0..100
               /\ state.morality \in 0..100
               /\ state.size \in 0..100

\* C1 witness: after "fight" and "rest" the size was pushed below 0 (-150)
\* and hp and morality above 100 (+250, +60) and all three were clamped.
C1_Witness ==
    /\ prog = "text"
    /\ state.history = <<"start:fight", "forest:rest">>
    /\ state.size = 0 /\ state.hp = 95 /\ state.morality = 80

\* C2: knowledge >= 0 and gold >= 0 after any effect application or direct
\* stat delta, negative knowledge_gain and gold_change included.
C2_KnowledgeGoldFloored ==
    Playing => /\ state.knowledge >= 0
               /\ prog = "text" => state.gold >= 0

C4_AvailableIsFilter ==
    Playing =>
        /\ Available(state).exc = "None"
        /\ Available(state).val =
              SelectSeq(Declared(state), LAMBDA c : Check(state, c) = "True")

\* C5: make_choice(i) with i out of the range of the available choices
\* returns False, leaves the player state unchanged and fires no hook.
\* (Where the filter itself raises, the indexes below 0 and past the
\* declared choices are out of range whatever the filter would give.)
C5_BadIndexRejected ==
    [][(/\ Playing
        /\ last'.op = "make_choice"
        /\ \/ last'.arg < 0
           \/ last'.arg >= Len(Declared(state))
           \/ Available(state).exc = "None" /\ last'.arg >= Len(Available(state).val))
       => /\ last'.ret = "False"
          /\ state' = state
          /\ last'.fired = << >>]_vars

\* C6: save_game(slot) followed by load_game(slot) succeeds and leaves a
\* player state equal to the one that was saved, field by field.
C6_SaveLoadRoundTrip ==
    [][(/\ Playing
        /\ last.op = "save_game"
        /\ last'.op = "load_game"
        /\ last'.arg = last.arg)
       => /\ last'.ret = "True"
          /\ state' = state]_vars

\* C6 witness: a state with history, inventory, achievements, flags and
\* custom stats that a load has just restored.
C6_Witness ==
    /\ prog = "text"
    /\ last.op = "load_game" /\ last.ret = "True"
    /\ state.history = <<"start:take">>
    /\ state.inventory = <<"key", "rope">>
    /\ state.achievements = <<"Collector">>
    /\ state.flags = [met |-> TRUE]
    /\ state.stats = [luck |-> 1]
    /\ files[last.arg].state.history = state.history

\* C7: load_game on a slot with no save file returns False (None for the
\* SaveManager), raises nothing and changes neither the player state nor
\* the files.
C7_LoadMissingSlot ==
    [][(last'.op = "load_game" /\ ~Has(files, last'.arg))
       => /\ last'.ret = (IF prog = "savemgr" THEN "None" ELSE "False")
          /\ state' = state
          /\ files' = files]_vars

\* C7 witness: a load of a missing slot after the game has moved on.
C7_Witness ==
    /\ prog = "text"
    /\ last.op = "load_game" /\ last.ret = "False"
    /\ ~Has(files, last.arg)
    /\ state.history # << >>

\* C8: render_scene changes no field of the player state, fires no hook,
\* and two consecutive calls have the same outcome.
C8_RenderIdempotent ==
    [][(Playing /\ last'.op = "render_scene")
       => /\ state' = state
          /\ hooks' = hooks
          /\ files' = files
          /\ last'.fired = << >>
          /\ last.op = "render_scene" => (last'.ret = last.ret /\ last'.val = last.val)]_vars

\* C8 witness: a rendering of a scene with choices, with hooks registered.
C8_Witness ==
    /\ prog = "text"
    /\ last.op = "render_scene" /\ last.ret = "value"
    /\ state.current_scene = "forest"
    /\ Len(last.val.choices) = 3
    /\ NumHooks > 0

\* C9: make_choice applies the choice's effect set first and its direct
\* deltas second, each with its own clamp: "fight" (effects hp -20, direct
\* morality +10) gives hp 80, morality 60 and a one-entry history; "rest"
\* after it (effects hp +250, morality +60; direct morality -20, hp -5)
\* gives hp min(100, 330) - 5 = 95 and morality min(100, 120) - 20 = 80.
C9_EffectsThenDirect ==
    prog = "text" =>
        /\ (Len(state.history) = 1 /\ state.history[1] = "start:fight")
              => (state.hp = 80 /\ state.morality = 60)
        /\ state.history = <<"start:fight", "forest:rest">>
              => (state.hp = 95 /\ state.morality = 80)

\* C9 witness: the scenario of the specification has just run.
C9_Witness ==
    /\ prog = "text"
    /\ last.op = "make_choice" /\ last.arg = 0 /\ last.ret = "True"
    /\ state.history = <<"start:fight">>
    /\ state.hp = 80 /\ state.morality = 60

\* C10: inventory and achievements never hold a duplicate.
C10_NoDuplicates ==
    Playing => NoDuplicates(state.inventory) /\ NoDuplicates(state.achievements)

\* C10 witness: knowledge crossed the milestone 100, fell below it and
\* crossed it again; the achievement is there once.
C10_Witness ==
    /\ prog = "text"
    /\ state.history = <<"start:study", "start:forget", "start:study">>
    /\ state.knowledge = 140
    /\ state.achievements = <<"Scholar">>

\* an effect set that adds the item k
Adds(e, k) ==
    \/ Has(e, "add_item") /\ e.add_item = k
    \/ Has(e, "add_items") /\ InList(k, e.add_items)

\* the on_enter effects of the scene id (none for an undefined scene)
OnEnterOf(id) == IF id \in DOMAIN Scenes THEN Opt(Scenes[id], "on_enter") ELSE << >>

\* C11: a choice gated by has_item k does not pass its check, and is not
\* among the available choices, in any state where k is not in the
\* inventory; and k enters the inventory only by a successful make_choice
\* whose choice (or entered scene) carries an effect adding k, or by the
\* load of a record saved with k.  So the choice is there only after such
\* an effect, and is gone again once remove_item has taken k away.
C11_HasItemGate ==
    /\ [](Playing =>
            /\ \A id \in DOMAIN Scenes : \A i \in 1..Len(Scenes[id].choices) :
                  LET r == Opt(Scenes[id].choices[i], "requirements")
                  IN  (Has(r, "has_item") /\ ~InList(r.has_item, state.inventory))
                          => Check(state, Scenes[id].choices[i]) # "True"
            /\ LET av == Available(state).val
               IN  \A i \in 1..Len(av) :
                     Has(Opt(av[i], "requirements"), "has_item")
                        => InList(av[i].requirements.has_item, state.inventory))
    /\ [][Playing =>
            \A j \in 1..Len(state'.inventory) :
                LET k == state'.inventory[j]
                IN  ~InList(k, state.inventory) =>
                      \/ /\ last'.op = "make_choice" /\ last'.ret = "True"
                         /\ LET c == Available(state).val[last'.arg + 1]
                            IN  \/ Adds(Opt(c, "effects"), k)
                                \/ Adds(OnEnterOf(c.next_scene), k)
                      \/ /\ last'.op = "load_game" /\ last'.ret = "True"
                         /\ InList(k, files[last'.arg].state.inventory)]_vars

\* C11 witness: the feather was gained by "help" and lost by "drop"; back
\* at the start the choice "show", gated by it, is excluded again.
C11_Witness ==
    /\ prog = "goose"
    /\ state.history = <<"start:help", "lake:drop">>
    /\ ~InList("feather", state.inventory)
    /\ Len(Scenes["start"].choices) = 5
    /\ Len(Available(state).val) = 4

\* the declared endings whose requirements hold in the state s
Matching(s) ==
    {i \in 1..Len(TextEndings) :
        /\ DOMAIN Opt(TextEndings[i], "requirements") # {}
        /\ CheckRequirements(s, TextEndings[i].requirements) = "True"}

\* the first element of a non-empty set of indexes
First(S) == CHOOSE i \in S : \A j \in S : i <= j

\* C12: get_ending returns the first declared ending whose requirements
\* hold; if none holds, the first ending of the tier of the morality band
\* (>= 80 perfect, >= 60 good, >= 40 neutral, else bad), or None when the
\* script has no ending of that tier.
C12_EndingOrder ==
    (prog = "text" /\ last.op = "get_ending") =>
        IF Matching(state) # {}
        THEN last.ret = "value" /\ last.val = TextEndings[First(Matching(state))]
        ELSE LET tier == IF state.morality >= 80 THEN "perfect"
                         ELSE IF state.morality >= 60 THEN "good"
                         ELSE IF state.morality >= 40 THEN "neutral"
                         ELSE "bad"
                 T == {i \in 1..Len(TextEndings) :
                          Has(TextEndings[i], "tier") /\ TextEndings[i].tier = tier}
             IN  IF T = {} THEN last.ret = "None"
                 ELSE last.ret = "value" /\ last.val = TextEndings[First(T)]

\* C13: effect application is transactional: a make_choice that ends in an
\* error leaves the player state, history included, as it was before the
\* call.
C13_EffectsTransactional ==
    [][(/\ prog \in TextProgs
        /\ last'.op = "make_choice"
        /\ last'.ret \notin {"True", "False"})
       => state' = state]_vars

\* the requirement sets whose flag or stat_min is not a pair
IllFormed(r) ==
    \/ Has(r, "flag") /\ Len(r.flag) # 2
    \/ Has(r, "stat_min") /\ Len(r.stat_min) # 2

\* C14: a flag or stat_min requirement given a scalar instead of a pair is
\* an unmet requirement: get_available_choices raises nothing and leaves
\* out every choice gated by such a requirement.
C14_FailClosed ==
    (/\ prog \in TextProgs
     /\ last.op = "get_available_choices"
     /\ \E i \in 1..Len(Declared(state)) :
            IllFormed(Opt(Declared(state)[i], "requirements")))
    => /\ last.ret = "value"
       /\ \A i \in 1..Len(last.val) : ~IllFormed(Opt(last.val[i], "requirements"))

\* the requirement sets and the effect sets of the script
RequirementSets ==
    {<< >>}
    \cup UNION {{Opt(TextScenes[id].choices[i], "requirements") :
                    i \in 1..Len(TextScenes[id].choices)} : id \in DOMAIN TextScenes}
    \cup {Opt(TextEndings[i], "requirements") : i \in 1..Len(TextEndings)}

EffectSets ==
    {<< >>}
    \cup UNION {{Opt(TextScenes[id].choices[i], "effects") :
                    i \in 1..Len(TextScenes[id].choices)} : id \in DOMAIN TextScenes}
    \cup {Opt(TextScenes[id], "on_enter") : id \in DOMAIN TextScenes}

\* keys outside the vocabulary of requirements and effects
UnknownKeys == {"weather", "teleport", "fog"}

\* d with every unknown key added
WithUnknown(d) ==
    [k \in DOMAIN d \cup UnknownKeys |-> IF k \in UnknownKeys THEN "x" ELSE d[k]]

\* d with every unknown key removed
WithoutUnknown(d) == [k \in DOMAIN d \ UnknownKeys |-> d[k]]

\* C15: keys outside the vocabulary change neither the outcome of
\* _check_requirements (a value or an exception) nor the state and the
\* outcome of _apply_effects, in any state and for any requirement or
\* effect set of the script: the set with the keys added gives what the set
\* without them gives.  (The player state changes in make_choice and
\* load_game only, and a call that returns False leaves it alone, so the
\* player states are met at the start and right after a call that returned
\* True.)
C15_UnknownKeysIgnored ==
    (/\ prog \in TextProgs
     /\ \/ last.op = "init"
        \/ last.op \in {"make_choice", "load_game"} /\ last.ret = "True") =>
        /\ \A r \in RequirementSets :
              CheckRequirements(state, WithUnknown(r))
                  = CheckRequirements(state, WithoutUnknown(r))
        /\ \A e \in EffectSets :
              /\ ApplyEffects(state, WithUnknown(e)) = ApplyEffects(state, WithoutUnknown(e))
              /\ EffectError(WithUnknown(e)) = EffectError(WithoutUnknown(e))

\* C15 witness: "take", whose effect set carries the unknown key teleport,
\* has been applied, and "open", whose requirements carry the unknown key
\* weather, was available and has been taken.
C15_Witness ==
    /\ prog = "text"
    /\ state.history = <<"start:take", "start:open">>
    /\ state.current_scene = "vault"
    /\ Has(TextScenes["start"].choices[4].effects, "teleport")
    /\ Has(TextScenes["start"].choices[5].requirements, "weather")

\* a save file as one of the three save_game operations writes it
WrittenBySave(doc) ==
    /\ doc # Unparseable
    /\ \/ Has(doc, "state") /\ Has(doc, "timestamp") /\ Has(doc.timestamp, "iso")
       \/ Has(doc, "metadata") /\ Has(doc, "game_data")

\* the files of the save directory that hold save slots
SlotFiles == IF prog = "savemgr" THEN DOMAIN files \ {MetaFile} ELSE DOMAIN files

\* C16: list_saves (get_save_files in the goose engine) returns a list,
\* whatever files the save directory holds: no file listed twice, no file
\* listed that does not parse, every file written by save_game listed, and the
\* timestamps non-increasing from the first entry to the last.
C16_ListSaves ==
    last.op \in {"list_saves", "get_save_files"} =>
        /\ last.ret = "value"
        /\ \A i, j \in 1..Len(last.val) : last.val[i].name = last.val[j].name => i = j
        /\ \A i \in 1..Len(last.val) :
              last.val[i].name \in SlotFiles /\ files[last.val[i].name] # Unparseable
        /\ \A n \in SlotFiles :
              WrittenBySave(files[n]) => \E i \in 1..Len(last.val) : last.val[i].name = n
        /\ \A i, j \in 1..Len(last.val) :
              i < j => ~StampLess(last.val[i].timestamp, last.val[j].timestamp)

\* the record a save to slot at instant now writes, nothing else being in
\* the file
FreshRecord(doc, slot, now) ==
    CASE prog \in TextProgs -> doc = TextSaveData(state, now)
      [] prog = "goose" -> doc = GooseSaveData(state, now)
      [] OTHER -> \E d \in GameDatas : doc = SMSaveData(slot, d, now)

\* the entries of a listing that name the slot
EntriesFor(listing, slot) == {i \in 1..Len(listing) : listing[i].name = slot}

\* C17: a save to a slot that already holds a record replaces the record as
\* a whole: the file then holds the record of this save and nothing of the
\* earlier one; a load of a slot gives what its record holds; and a listing
\* shows exactly one entry for every slot that was saved to.
C17_FullReplace ==
    /\ [][(last'.op = "save_game" /\ Has(files, last'.arg))
            => FreshRecord(files'[last'.arg], last'.arg, clock)]_vars
    /\ [][(last'.op = "load_game" /\ last'.ret \in {"True", "value"})
            => IF prog = "savemgr" THEN last'.val = files[last'.arg].game_data
               ELSE state' = FromDict(files[last'.arg].state,
                                      IF prog = "goose" THEN GooseDefaults ELSE TextDefaults)]_vars
    /\ []((last.op \in {"list_saves", "get_save_files"} /\ last.ret = "value")
            => \A slot \in DOMAIN files :
                  WrittenBySave(files[slot]) => Cardinality(EntriesFor(last.val, slot)) = 1)

\* the minimal shape of a stored record: it parses and its state names the
\* current scene
MinimalShape(doc) ==
    doc # Unparseable /\ Has(doc, "state") /\ Has(doc.state, "current_scene")

\* C18: load_game on an existing slot fails, leaving the engine state as it
\* was, exactly when the stored record does not have the minimal shape; a
\* record whose state has no current_scene is not loaded.
C18_CorruptRejected ==
    [][(last'.op = "load_game" /\ prog # "savemgr" /\ Has(files, last'.arg))
        => ((last'.ret # "True" /\ state' = state) <=> ~MinimalShape(files[last'.arg]))]_vars

\* the record a save of the SaveManager at instant now leaves in the slot
SavedAt(fs, slot, now) ==
    Has(fs, slot) /\ Has(fs[slot], "metadata")
        /\ fs[slot].metadata.timestamp = IsoFormat(now)

\* C19: with an interval k >= 1 the counter of the AutoSaveManager starts at
\* 0 and lies in 0..k-1 between calls; on_scene_change adds one to it and
\* saves nothing, except on the call that brings it to k, which saves the
\* game data to the slot and sets the counter to 0.
C19_Cadence ==
    /\ [](prog = "auto" => state.scene_count \in 0..(state.auto_save_interval - 1))
    /\ [][(prog = "auto" /\ last'.op = "on_scene_change")
            => IF state.scene_count + 1 = state.auto_save_interval
               THEN state'.scene_count = 0 /\ SavedAt(files', last'.arg, clock)
               ELSE state'.scene_count = state.scene_count + 1 /\ files' = files]_vars

\* C19 witness: with interval 2 the second on_scene_change in a row has
\* saved and the counter is back at 0, the first one having saved nothing.
C19_Witness ==
    /\ prog = "auto"
    /\ state.auto_save_interval = 2
    /\ last.op = "on_scene_change"
    /\ clock = 2
    /\ state.scene_count = 0
    /\ SavedAt(files, AutoSlot, 1)

\* C20: every explicit save, force_save or a save_game of the wrapped
\* SaveManager, leaves the counter of the AutoSaveManager at 0.
C20_ExplicitSaveResets ==
    [][(prog = "auto" /\ last'.op \in {"force_save", "save_game"})
        => state'.scene_count = 0]_vars

\* the choice a make_choice(i) takes in state s
Chosen(s, i) == Available(s).val[i + 1]

\* the stages of a make_choice in the text engine: the history entry, then
\* the choice's effect set and direct deltas, then the move, then on_enter
Staged1(s, c) == [s EXCEPT !.history = Append(@, s.current_scene \o ":" \o c.text)]

Staged2(s, c) ==
    DirectChanges(IF DOMAIN Opt(c, "effects") # {}
                  THEN ApplyEffects(Staged1(s, c), c.effects) ELSE Staged1(s, c), c)

Staged3(s, c) == [Staged2(s, c) EXCEPT !.current_scene = c.next_scene]

Staged4(s, c) ==
    IF DOMAIN OnEnterOf(c.next_scene) # {}
    THEN ApplyEffects(Staged3(s, c), OnEnterOf(c.next_scene)) ELSE Staged3(s, c)

\* C21: a successful make_choice of the text engine from state s with
\* choice c calls the on_scene_exit hooks with the old scene id when only
\* the history entry is there, then the on_choice hooks when the effect set
\* and the direct deltas are applied, then the on_scene_enter hooks with
\* (the scene it left, the scene it is in) when the move and the on_enter
\* effects are done, and returns in that last state.
C21_StepOrder ==
    [][(prog \in TextProgs /\ last'.op = "make_choice" /\ last'.ret = "True")
        => /\ state' = Staged4(state, Chosen(state, last'.arg))
           /\ last'.fired =
                 Trigger(hooks, "on_scene_exit", <<state.current_scene>>,
                         Staged1(state, Chosen(state, last'.arg)))
                 \o Trigger(hooks, "on_choice", <<Chosen(state, last'.arg)>>,
                            Staged2(state, Chosen(state, last'.arg)))
                 \o Trigger(hooks, "on_scene_enter",
                            <<state.current_scene, state'.current_scene>>,
                            Staged4(state, Chosen(state, last'.arg)))]_vars

\* the callbacks called for the event during the last operation, in the
\* order of the calls
CalledFor(event) ==
    [i \in 1..Len(SelectSeq(last.fired, LAMBDA f : f.event = event)) |->
        SelectSeq(last.fired, LAMBDA f : f.event = event)[i].cb]

\* the events that occur during the last operation
Occurred ==
    CASE last.op = "make_choice" /\ last.ret = "True"
            -> {"on_scene_exit", "on_choice", "on_scene_enter"}
      [] last.op = "save_game" -> {"on_save"}
      [] last.op = "load_game" /\ last.ret = "True" -> {"on_load"}
      [] OTHER -> {}

\* C22: the callbacks registered for an event are kept in the order of
\* their registration, and each occurrence of the event calls every one of
\* them exactly once in that order, within the operation; an event that
\* does not occur calls none.  register_hook with a name outside the five
\* events changes nothing, and no call is ever made for such a name.
C22_HooksInOrder ==
    /\ [](prog = "text" =>
            /\ DOMAIN hooks = HookEvents
            /\ \A e \in HookEvents :
                  /\ hooks[e] = [i \in 1..Len(hooks[e]) |-> i]
                  /\ CalledFor(e) = IF e \in Occurred THEN hooks[e] ELSE << >>
            /\ \A i \in 1..Len(last.fired) : last.fired[i].event \in HookEvents)
    /\ [][(prog = "text" /\ last'.op = "register_hook")
            => IF last'.arg \in HookEvents
               THEN hooks' = [hooks EXCEPT ![last'.arg] = Append(@, Len(@) + 1)]
               ELSE hooks' = hooks]_vars

\* C22 witness: two callbacks registered for on_choice, and a successful
\* make_choice has called the first and then the second.
C22_Witness ==
    /\ prog = "text"
    /\ Len(hooks.on_choice) = 2
    /\ last.op = "make_choice" /\ last.ret = "True"
    /\ CalledFor("on_choice") = <<1, 2>>

\* C23: a hook callback called during make_choice finds the player state
\* either as it was before the call or as it is when the call returns,
\* never a state in between.
C23_NoPartialState ==
    [][(prog \in TextProgs /\ last'.op = "make_choice")
        => \A i \in 1..Len(last'.fired) : last'.fired[i].seen \in {state, state'}]_vars

\* C24: a successful make_choice to a scene that declares on_enter effects
\* returns in the state that one application of those effects gives, made
\* after the move; that is the state the on_scene_enter hooks find.  The
\* same holds when the choice leads back to the scene it was taken in, and
\* when the effects jump to another scene, whose own on_enter effects are
\* then not applied.
C24_OnEnterOnce ==
    [][(/\ prog \in TextProgs
        /\ last'.op = "make_choice" /\ last'.ret = "True"
        /\ DOMAIN OnEnterOf(Chosen(state, last'.arg).next_scene) # {})
       => /\ state' = ApplyEffects(Staged3(state, Chosen(state, last'.arg)),
                                   OnEnterOf(Chosen(state, last'.arg).next_scene))
          /\ \A i \in 1..Len(last'.fired) :
                last'.fired[i].event = "on_scene_enter" => last'.fired[i].seen = state']_vars

\* C24 witness: "climb" has entered the summit, whose on_enter effects
\* granted "Hero" and jumped to the victory scene; the on_enter effects of
\* the victory scene ("Champion", 100 gold) have not been applied, and the
\* on_scene_enter hook has seen this state.
C24_Witness ==
    /\ prog = "text"
    /\ last.op = "make_choice" /\ last.ret = "True"
    /\ state.history = <<"start:fight", "forest:climb">>
    /\ state.current_scene = "victory"
    /\ state.achievements = <<"Hero">>
    /\ state.gold = 10
    /\ Len(last.fired) = 1
    /\ last.fired[1].event = "on_scene_enter" /\ last.fired[1].seen = state

\* the effect set that has only the key k of e
Only(e, k) == [x \in {k} |-> e[x]]

\* effect sets combining keys that write the same part of the state
OrderProbes ==
    {[add_item |-> "key", remove_item |-> "key"],
     [set_flag |-> [met |-> TRUE], clear_flag |-> "met"],
     [game_over |-> TRUE, victory |-> TRUE],
     [knowledge_gain |-> 100, add_achievement |-> "Scholar"]}

\* C25: the keys of an effect set can be applied in any order: for every
\* state, every effect set and any two of its keys, applying the one and
\* then the other gives the state that applying them the other way round
\* gives, which is the state _apply_effects gives for the two.
C25_OrderFree ==
    prog = "text" =>
        \A e \in EffectSets \cup OrderProbes : \A k1, k2 \in DOMAIN e :
            k1 # k2 =>
                /\ ApplyEffects(ApplyEffects(state, Only(e, k1)), Only(e, k2))
                      = ApplyEffects(ApplyEffects(state, Only(e, k2)), Only(e, k1))
                /\ ApplyEffects(ApplyEffects(state, Only(e, k1)), Only(e, k2))
                      = ApplyEffects(state, [x \in {k1, k2} |-> e[x]])

\* the scene the effect set jumps to: victory is applied after game_over
JumpOf(e) ==
    IF Has(e, "victory") /\ prog # "goose" THEN "victory"
    ELSE IF Has(e, "game_over") THEN "game_over"
    ELSE "None"

\* C26: when the effect set of the choice taken, or the on_enter effect set
\* of the scene it leads to, contains game_over (victory), the current
\* scene is "game_over" ("victory") when make_choice returns.
C26_TerminalJump ==
    [][(Playing /\ last'.op = "make_choice" /\ last'.ret = "True")
        => IF JumpOf(OnEnterOf(Chosen(state, last'.arg).next_scene)) # "None"
           THEN state'.current_scene = JumpOf(OnEnterOf(Chosen(state, last'.arg).next_scene))
           ELSE JumpOf(Opt(Chosen(state, last'.arg), "effects")) # "None"
                  => state'.current_scene = JumpOf(Opt(Chosen(state, last'.arg), "effects"))]_vars

\* the knowledge milestones of the session: threshold and achievement
Thresholds ==
    IF prog = "goose" THEN GooseMilestones
    ELSE [i \in 1..Len(Get(TextConfig, "knowledge_milestones", << >>)) |->
            <<ParseInt(TextConfig.knowledge_milestones[i][1]),
              TextConfig.knowledge_milestones[i][2]>>]

\* C27: when a make_choice has changed knowledge, every milestone whose
\* threshold is at or below the knowledge then held has its achievement in
\* the list; and every achievement held before a make_choice is held after
\* it, whatever has become of knowledge.
C27_Milestones ==
    [][(Playing /\ last'.op = "make_choice")
        => /\ state'.knowledge # state.knowledge
                => \A i \in 1..Len(Thresholds) :
                      Thresholds[i][1] <= state'.knowledge
                          => InList(Thresholds[i][2], state'.achievements)
           /\ \A j \in 1..Len(state.achievements) :
                 InList(state.achievements[j], state'.achievements)]_vars

\* C27 witness: "study" brought knowledge to 100 and granted "Scholar";
\* "forget" then took knowledge down to 40, and "Scholar" is still held.
C27_Witness ==
    /\ prog = "text"
    /\ last.op = "make_choice" /\ last.ret = "True"
    /\ state.history = <<"start:study", "start:forget">>
    /\ state.knowledge = 40
    /\ state.achievements = <<"Scholar">>

\* v is a substring of h
Within(v, h) == \E i \in 1..(Len(h) - Len(v) + 1) : SubSeq(h, i, i + Len(v) - 1) = v

\* some history entry contains v
HistoryContains(s, v) == \E j \in 1..Len(s.history) : Within(v, s.history[j])

\* C28: get_available_choices returns without error, and a choice whose only
\* requirement is visited_scene v is in the result exactly when some history
\* entry contains v.
C28_VisitedScene ==
    (prog \in TextProgs /\ last.op = "get_available_choices")
        => \A i \in 1..Len(Declared(state)) :
              LET c == Declared(state)[i]
              IN  DOMAIN Opt(c, "requirements") = {"visited_scene"}
                    => /\ last.ret = "value"
                       /\ InList(c, last.val)
                             <=> HistoryContains(state, c.requirements.visited_scene)

\* the GameState defaults of the session's engine
Defaults == IF prog = "goose" THEN GooseDefaults ELSE TextDefaults

\* the stored state names the current scene and no key that is not a field
OptionalOmitted(doc) ==
    /\ doc # Unparseable
    /\ Has(doc, "state")
    /\ Has(doc.state, "current_scene")
    /\ DOMAIN doc.state \subseteq DOMAIN Defaults

\* C29: load_game on a stored record whose state names the current scene
\* returns True and raises nothing, whatever other fields the state omits;
\* each field then holds the stored value if the record has one and the
\* GameState default if not.
C29_PermissiveLoad ==
    [][(prog \in TextProgs \cup {"goose"} /\ last'.op = "load_game"
            /\ Has(files, last'.arg) /\ OptionalOmitted(files[last'.arg]))
        => /\ last'.ret = "True"
           /\ DOMAIN state' = DOMAIN Defaults
           /\ \A k \in DOMAIN Defaults :
                 state'[k] = IF Has(files[last'.arg].state, k)
                             THEN files[last'.arg].state[k] ELSE Defaults[k]]_vars

\* C29 witness: a record whose state holds the current scene alone has been
\* loaded: the scene is the stored one and every other field is at its
\* default.
C29_Witness ==
    /\ prog = "lab"
    /\ last.op = "load_game" /\ last.ret = "True"
    /\ Has(files, last.arg)
    /\ DOMAIN files[last.arg].state = {"current_scene"}
    /\ state = [TextDefaults EXCEPT !.current_scene = files[last.arg].state.current_scene]
    /\ state.current_scene # TextDefaults.current_scene

\* C30: the dict a render_scene call returned is a snapshot: the make_choice
\* that follows the call does not change what its "state" entry shows.
C30_RenderSnapshot ==
    [][(Playing
            /\ last.op = "render_scene" /\ last.ret = "value"
            /\ Has(last.val, "state")
            /\ last'.op = "make_choice")
        => ShownAfter(last.val.state, state') = last.val.state]_vars

\* the current scene is undefined, or none of its choices has requirements
\* that hold: the check of the code decides, and where that check raises on
\* a visited_scene requirement, whether some history entry contains the value
DeadEnd(s) ==
    \/ s.current_scene \notin DOMAIN Scenes
    \/ \A i \in 1..Len(Declared(s)) :
          /\ Check(s, Declared(s)[i]) # "True"
          /\ Check(s, Declared(s)[i]) = "NameError"
                => ~HistoryContains(s, Declared(s)[i].requirements.visited_scene)

\* C31: at a dead end every make_choice returns False and leaves the player
\* state as it was (so the dead end lasts under make_choice alone), no call
\* of make_choice, get_available_choices or render_scene raises, and
\* render_scene in an undefined scene returns a record with an "error" entry.
C31_DeadEndAbsorbing ==
    [][(Playing /\ DeadEnd(state))
        => /\ last'.op = "make_choice"
                => last'.ret = "False" /\ state' = state /\ DeadEnd(state')
           /\ last'.op \in {"get_available_choices", "render_scene"}
                => last'.ret = "value"
           /\ (last'.op = "render_scene" /\ state.current_scene \notin DOMAIN Scenes)
                => DOMAIN last'.val = {"error"}]_vars

\* C32: an ending that get_ending returns, and that declares requirements,
\* has requirements that hold in the current state: whether the scan of the
\* requirements or the morality fallback has picked it.
C32_EndingRequirementsHold ==
    (Playing /\ last.op = "get_ending" /\ last.ret = "value"
        /\ DOMAIN Opt(last.val, "requirements") # {})
    => (IF prog = "goose" THEN GooseCheckRequirements(state, last.val.requirements)
        ELSE CheckRequirements(state, last.val.requirements)) # "False"

\* the endings of es whose non-empty requirements hold in s (goose)
GooseMatching(s, es) ==
    {i \in 1..Len(es) :
        /\ DOMAIN Opt(es[i], "requirements") # {}
        /\ GooseCheckRequirements(s, es[i].requirements) = "True"}

C34_SMRoundTrip ==
    [][(prog = "savemgr" /\ last'.op = "save_game")
        => \E d \in GameDatas :
              /\ files'[last'.arg] = SMSaveData(last'.arg, d, clock)
              /\ SMLoadOutcome(files', last'.arg) = [ret |-> "value", val |-> d]]_vars

\* the slots whose save file exists: every file but the metadata index
SMSlots == DOMAIN files \ {MetaFile}

\* C35: as long as the metadata file is the index (no save has used its
\* name as a slot), its keys are the slots whose file exists and list_saves
\* returns one summary for each of them; delete_save on a missing slot
\* returns False and changes no file.
C35_MetaConsistent ==
    /\ [](( /\ prog = "savemgr"
            /\ ~Has(Get(files, MetaFile, << >>), "game_data") )
          => /\ DOMAIN Get(files, MetaFile, << >>) = SMSlots
             /\ last.op = "list_saves"
                  => /\ Len(last.val) = Cardinality(SMSlots)
                     /\ {last.val[i].name : i \in 1..Len(last.val)} = SMSlots)
    /\ [][(prog = "savemgr" /\ last'.op = "delete_save" /\ ~Has(files, last'.arg))
            => last'.ret = "False" /\ files' = files]_vars

\* C36: in an engine session, save_game leaves the player state as it is
\* and stores a copy of it; make_choice changes no stored record; and a
\* successful load_game makes the player state, history included, the one
\* the record of the slot holds.
C36_SaveIsSnapshot ==
    [][Playing =>
        /\ last'.op = "save_game"
             => /\ state' = state
                /\ files'[last'.arg].state = ToDict(state, DOMAIN Defaults)
                /\ \A slot \in DOMAIN files \ {last'.arg} : files'[slot] = files[slot]
        /\ last'.op = "make_choice" => files' = files
        /\ (last'.op = "load_game" /\ last'.ret = "True")
             => /\ files' = files
                /\ state' = files[last'.arg].state]_vars

\* C36 witness: slot "autosave" was saved before the first choice and
\* "slot1" after the choice "help"; loading "autosave" has brought back the
\* whole initial state, and neither record has changed.
C36_Witness ==
    /\ prog = "goose"
    /\ last.op = "load_game" /\ last.arg = "autosave" /\ last.ret = "True"
    /\ Has(files, "autosave") /\ Has(files, "slot1")
    /\ files.autosave.timestamp = IsoFormat(0)
    /\ files.slot1.timestamp = IsoFormat(1)
    /\ files.slot1.state.history = <<"start:help">>
    /\ files.autosave.state.history = << >>
    /\ state = GooseDefaults

====
